---- MODULE Spec2Model ----
(***************************************************************************)
(* Model of the curriculum-document parsers of moevm/mse1h2026-eduprogram  *)
(* (backend/parsers/*.py): the five institution parsers, their per-file    *)
(* readers and their direction collections; and of the store of the users  *)
(* (backend/src/dataBase/dataBaseController.py).                           *)
(*                                                                         *)
(* Text is a sequence of characters.  A character is a TLA+ string.  The   *)
(* fixed phrases the parsers search for (their marker attributes and the   *)
(* literals of their regular expressions) are each abbreviated to ONE      *)
(* character named after the phrase, so that str.find, len() and slicing   *)
(* keep the arithmetic of the code (index + len(marker), [1:...], -1 on a  *)
(* miss).  Every other character is a letter, a digit, white space or      *)
(* punctuation.                                                            *)
(***************************************************************************)
EXTENDS Integers, Sequences, FiniteSets, TLC

VARIABLES
    parser,             \* which parser class was instantiated
    files,              \* the university directory: direction -> NoDir or its files
    directionsOfStudy,  \* the parser's direction collection (dict, insertion order)
    call,               \* the last call made on the parser: its name and argument, and
                        \* whether the collection held every direction it was to load
    ret,                \* value returned by the last call
    poolConnections,    \* DataBaseController: the connection pool, None before it is opened
    users,              \* the rows of the table "users" of the data base
    addedUsers          \* history: the (login, password) pairs addUser has stored

dataBase == <<poolConnections, users, addedUsers>>

vars == <<parser, files, directionsOfStudy, call, ret, dataBase>>

(***************************************************************************)
(* Bounds                                                                  *)
(***************************************************************************)
MaxFiles == 2           \* files in the whole university directory

Directions == {"d1", "d2"}

(***************************************************************************)
(* Characters                                                              *)
(***************************************************************************)
SP == " "
NL == "nl"              \* "\n"
LQ == "lq"              \* the opening guillemet
RQ == "rq"              \* the closing guillemet
DQ == "dq"              \* the ASCII double quote
BUL == "bul"            \* the bullet glyph
NBSP == "nbsp"          \* a Unicode space that \s matches: U+00A0, U+2000..U+200A, U+202F, ...
ZWSP == "zwsp"          \* the zero-width space U+200B, which \s does not match
SHY == "shy"            \* the soft hyphen U+00AD
CTL == "ctl"            \* a control character of U+0000..U+001F other than \t \n \r
\* what \s matches and str.strip() removes
Whitespace == {SP, NL, NBSP}
LowerSeq == <<"a", "b", "c", "d", "f", "i", "p", "r", "t">>
UpperSeq == <<"A", "B", "C", "D", "F", "I", "P", "R", "T">>
LowerLetters == {LowerSeq[i] : i \in 1..Len(LowerSeq)}
UpperLetters == {UpperSeq[i] : i \in 1..Len(UpperSeq)}
Letters == LowerLetters \cup UpperLetters
DigitSeq == <<"0", "1", "2", "3", "4", "5", "6", "7", "8", "9">>
Digits == {DigitSeq[i] : i \in 1..Len(DigitSeq)}

\* c.lower(), c.upper()
Lower(c) ==
    IF c \in UpperLetters
    THEN LowerSeq[CHOOSE i \in 1..Len(UpperSeq) : UpperSeq[i] = c] ELSE c
Upper(c) ==
    IF c \in LowerLetters
    THEN UpperSeq[CHOOSE i \in 1..Len(LowerSeq) : LowerSeq[i] = c] ELSE c

LowerStr(s) == [i \in 1..Len(s) |-> Lower(s[i])]

Min(S) == CHOOSE x \in S : \A y \in S : x <= y
Max(S) == CHOOSE x \in S : \A y \in S : x >= y

\* A local variable of the source: the value is computed once, at its
\* assignment, and every later statement of the body reads that value.
Bind(value, In(_)) == In(value)

(***************************************************************************)
(* Python string primitives on character sequences (indices 0-based, as    *)
(* in the code)                                                            *)
(***************************************************************************)
\* s[i : i + len(m)] == m
IsAt(s, m, i) ==
    /\ i >= 0
    /\ i + Len(m) <= Len(s)
    /\ \A k \in 1..Len(m) : s[i + k] = m[k]

\* s.find(m, start): the least index >= start at which m occurs, else -1
FindFrom(s, m, start) ==
    Bind({i \in start..(Len(s) - Len(m)) : IsAt(s, m, i)}, LAMBDA hits :
        IF hits = {} THEN -1 ELSE Min(hits))

\* s.find(m)
Find(s, m) == FindFrom(s, m, 0)

\* m in s
Contains(s, m) == Find(s, m) # -1

\* a slice bound as Python normalises it: negative counts from the end, then clamp
Clamp(i, n) ==
    IF i < 0 THEN (IF i + n < 0 THEN 0 ELSE i + n)
             ELSE (IF i > n THEN n ELSE i)

\* s[a:b]
Slice(s, a, b) ==
    Bind(Clamp(a, Len(s)), LAMBDA lo :
    Bind(Clamp(b, Len(s)), LAMBDA hi :
        IF lo >= hi THEN <<>> ELSE SubSeq(s, lo + 1, hi)))

\* s[a:]
SliceFrom(s, a) == Slice(s, a, Len(s))

\* s[:b]
SliceTo(s, b) == Slice(s, 0, b)

\* s.strip(cs)
Strip(s, cs) ==
    Bind({i \in 1..Len(s) : s[i] \notin cs}, LAMBDA keep :
        IF keep = {} THEN <<>> ELSE SubSeq(s, Min(keep), Max(keep)))

\* s.lstrip(cs)
LStrip(s, cs) ==
    Bind({i \in 1..Len(s) : s[i] \notin cs}, LAMBDA keep :
        IF keep = {} THEN <<>> ELSE SubSeq(s, Min(keep), Len(s)))

\* s.rstrip(cs)
RStrip(s, cs) ==
    Bind({i \in 1..Len(s) : s[i] \notin cs}, LAMBDA keep :
        IF keep = {} THEN <<>> ELSE SubSeq(s, 1, Max(keep)))

\* s.split(sep): the list of pieces, sep a non-empty string
RECURSIVE Split(_, _)
Split(s, sep) ==
    Bind(Find(s, sep), LAMBDA i :
        IF i = -1 THEN <<s>>
        ELSE <<SliceTo(s, i)>> \o Split(SliceFrom(s, i + Len(sep)), sep))

\* s.replace(old, new): non-overlapping occurrences, left to right
RECURSIVE Replace(_, _, _)
Replace(s, old, new) ==
    Bind(Find(s, old), LAMBDA i :
        IF i = -1 THEN s
        ELSE SliceTo(s, i) \o new \o Replace(SliceFrom(s, i + Len(old)), old, new))

\* re.sub(r"\s+", " ", s): every maximal run of white space becomes one space
CollapseWs(s) ==
    Bind({i \in 1..Len(s) : s[i] \in Whitespace /\ (i = 1 \/ s[i - 1] \notin Whitespace)}, LAMBDA first :
    LET kept == {i \in 1..Len(s) : s[i] \notin Whitespace} \cup first
        idx == [k \in 1..Len(s) |-> IF k \in kept THEN k ELSE 0]
    IN
    Bind(SelectSeq(idx, LAMBDA k : k # 0), LAMBDA sel :
        [j \in 1..Len(sel) |-> IF sel[j] \in first THEN SP ELSE s[sel[j]]]))

\* "".join(pieces)
RECURSIVE Concat(_)
Concat(ss) == IF ss = <<>> THEN <<>> ELSE Head(ss) \o Concat(Tail(ss))

Range(xs) == {xs[i] : i \in 1..Len(xs)}

(***************************************************************************)
(* Python values.  A dict is the sequence of its items in insertion order; *)
(* a list is a sequence.  Both carry their type, as json.dump sees it.     *)
(***************************************************************************)
PyNone == [kind |-> "none"]
\* no controller of the data base was made: no pool, no row
NoDataBase == poolConnections = PyNone /\ users = <<>> /\ addedUsers = {}
PyStr(s) == [kind |-> "str", val |-> s]
PyList(xs) == [kind |-> "list", items |-> xs]
PyDict(kvs) == [kind |-> "dict", items |-> kvs]
Item(k, v) == [k |-> k, v |-> v]
EmptyDict == PyDict(<<>>)

Keys(d) == {d.items[i].k : i \in 1..Len(d.items)}
HasKey(d, k) == k \in Keys(d)
Get(d, k) == d.items[CHOOSE i \in 1..Len(d.items) : d.items[i].k = k].v

\* d[k] = v: a present key keeps its place, a new key goes last
DictSet(d, k, v) ==
    IF HasKey(d, k)
    THEN PyDict([i \in 1..Len(d.items) |->
                    IF d.items[i].k = k THEN Item(k, v) ELSE d.items[i]])
    ELSE PyDict(Append(d.items, Item(k, v)))

\* d.update(e)
RECURSIVE DictUpdate(_, _)
DictUpdate(d, e) ==
    IF e.items = <<>> THEN d
    ELSE DictUpdate(DictSet(d, e.items[1].k, e.items[1].v), PyDict(Tail(e.items)))

\* "if x:" on None, a string, a list or a dict
Truthy(x) ==
    CASE x.kind = "none" -> FALSE
      [] x.kind = "str" -> x.val # <<>>
      [] OTHER -> x.items # <<>>

(***************************************************************************)
(* A file of a direction directory, as the layout collaborator (PyMuPDF)   *)
(* presents it: whether it opens, the text of its spans and the texts of   *)
(* its bold spans (flags == 20).  isfile is os.path.isfile of the entry.   *)
(***************************************************************************)
File(stem, ext, ok, text, bold) ==
    [stem |-> stem, ext |-> ext, isfile |-> TRUE, ok |-> ok, text |-> text, bold |-> bold]

\* a subdirectory of a direction directory
SubDir(stem) ==
    [stem |-> stem, ext |-> <<>>, isfile |-> FALSE, ok |-> FALSE, text |-> <<>>, bold |-> <<>>]

\* fileName.lower().endswith('.pdf')
IsPdf(file) == LowerStr(file.ext) = <<"p", "d", "f">>

\* a Python bool, and an exception that leaves the operation
PyBool(b) == [kind |-> "bool", val |-> b]
Raised(e) == [kind |-> "raise", val |-> e]


\* the result of a reader that takes the "except Exception" path, a missing title included
Rejected == <<PyNone, PyNone>>

\* {"previousDisciplines": prev, "topics": topics}
Record2(prev, topics) ==
    PyDict(<<Item("previousDisciplines", PyList(prev)), Item("topics", topics)>>)

\* {"previousDisciplines": prev, "nextDisciplines": next, "topics": topics}
Record3(prev, next, topics) ==
    PyDict(<<Item("previousDisciplines", PyList(prev)),
             Item("nextDisciplines", PyList(next)),
             Item("topics", topics)>>)

\* the length of the longest prefix of s made of characters of cs
RunLen(s, cs) ==
    Bind({i \in 1..Len(s) : s[i] \notin cs}, LAMBDA stop :
        IF stop = {} THEN Len(s) ELSE Min(stop) - 1)

\* the length of the match of r'\d+\.' at the start of s, 0 if none
MatchNumDot(s) ==
    Bind(RunLen(s, Digits), LAMBDA n :
        IF n > 0 /\ n < Len(s) /\ s[n + 1] = "." THEN n + 1 ELSE 0)

(***************************************************************************)
(* ParserMTUCI                                                             *)
(***************************************************************************)
\* "Рабочая программа дисциплины  ", "Рабочая программа элективной дисциплины  "
MTUCI_titleOfDocument == << <<"RabProgDisc", SP, SP>>, <<"RabProgElectDisc", SP, SP>> >>
\* the literal "Направление подготовки"
MTUCI_nameEnd == <<"NapravleniePodgotovki">>
\* "формируются у  обучающихся ... дисциплины ", "Для освоения ... таких дисциплин как"
MTUCI_textForPreviousDisciplines == << <<"FormiruyutsyaU", SP>>, <<"DlyaOsvoeniya">> >>
\* "индикаторов   компетенций  ", "индикаторов  компетенций  ", "индикаторов  компетенции  ",
\* "индикаторов   компетенции  ", "индикаторов  компетенций": the last is a prefix of the second
MTUCI_textForEducationalUnits ==
    << <<"Indik3Kompetenciy", SP, SP>>, <<"Indik2Kompetenciy", SP, SP>>,
       <<"Indik2Kompetencii", SP, SP>>, <<"Indik3Kompetencii", SP, SP>>,
       <<"Indik2Kompetenciy">> >>
\* 'Лекция', 'Лабораторная работа', 'Практическая работа', '№ п/п', 'Практическое занятие'
MTUCI_endTextForTopics ==
    << <<"Lekciya">>, <<"LabRabota">>, <<"PraktRabota">>, <<"NoPP">>, <<"PraktZanyatie">> >>
\* '5. Учебно-методическое'
MTUCI_endTextForEducationalUnits == <<"5UchebnoMetod">>
\* one match of r'\d+\.\s*Раздел\s*\d+\.'
MTUCI_sectionHeader == <<"1", ".", SP, "Razdel", SP, "1", ".">>
\* one match of r'Тема\s*\d+(?:\.\d+)*(?:[.:])?'
MTUCI_themeHeading == <<"Tema", SP, "1", ".", "1">>
\* the 200 of "if len(disciplineName) > 200"
MTUCI_maxNameLen == 200

MTUCI_checkText(text) ==
    /\ \E i \in 1..Len(text) : text[i] \in Letters
    /\ Len(Strip(text, Whitespace)) > 2

\* the length of the match of r'\d+\.\s*Раздел\s*\d+\.' at the start of s, 0 if none
MTUCI_sectionHeaderLen(s) ==
    Bind(MatchNumDot(s), LAMBDA n :
    Bind(n + RunLen(SliceFrom(s, n), Whitespace), LAMBDA w :
    Bind(w + 1 + RunLen(SliceFrom(s, w + 1), Whitespace), LAMBDA v :
    Bind(MatchNumDot(SliceFrom(s, v)), LAMBDA m :
        IF n > 0 /\ w < Len(s) /\ s[w + 1] = "Razdel" /\ m > 0 THEN v + m ELSE 0))))

\* the length of the match of r'(?:\.\d+)*' at the start of s
RECURSIVE MTUCI_dotGroups(_)
MTUCI_dotGroups(s) ==
    IF s # <<>> /\ Head(s) = "." /\ RunLen(Tail(s), Digits) > 0
    THEN 1 + RunLen(Tail(s), Digits)
           + MTUCI_dotGroups(SliceFrom(s, 1 + RunLen(Tail(s), Digits)))
    ELSE 0

\* the length of the match of r'Тема\s*\d+(?:\.\d+)*(?:[.:])?' at the start of s, 0 if none
MTUCI_themeHeadingLen(s) ==
    IF s = <<>> \/ Head(s) # "Tema" THEN 0
    ELSE Bind(1 + RunLen(Tail(s), Whitespace), LAMBDA w :
         Bind(RunLen(SliceFrom(s, w), Digits), LAMBDA n :
         Bind(w + n + MTUCI_dotGroups(SliceFrom(s, w + n)), LAMBDA g :
             IF n = 0 THEN 0
             ELSE IF g < Len(s) /\ s[g + 1] \in {".", ":"} THEN g + 1 ELSE g)))

\* the length of the match at the start of s of the pattern of the section headers or
\* of the theme headings
MTUCI_matchLen(kind, s) ==
    IF kind = "section" THEN MTUCI_sectionHeaderLen(s) ELSE MTUCI_themeHeadingLen(s)

\* re.split('(pattern)', s): <<before, match, between, match, ..., after>>
RECURSIVE MTUCI_reSplit(_, _)
MTUCI_reSplit(kind, s) ==
    Bind({i \in 0..(Len(s) - 1) : MTUCI_matchLen(kind, SliceFrom(s, i)) > 0}, LAMBDA hits :
        IF hits = {} THEN <<s>>
        ELSE Bind(Min(hits), LAMBDA i :
             Bind(MTUCI_matchLen(kind, SliceFrom(s, i)), LAMBDA n :
                 <<SliceTo(s, i), Slice(s, i, i + n)>>
                     \o MTUCI_reSplit(kind, SliceFrom(s, i + n)))))

\* __cut_by_words that cuts at the first stop phrase of the configuration found
MTUCI_cut_by_wordsInOrder(text, words) ==
    Bind({i \in 1..Len(words) : Contains(text, words[i])}, LAMBDA found :
        IF found = {} THEN text
        ELSE Strip(SliceTo(text, Find(text, words[Min(found)])), Whitespace))

MTUCI_cut_by_words(text, words) ==
    Bind({Find(text, words[i]) : i \in 1..Len(words)} \ {-1}, LAMBDA positions :
        IF positions = {} THEN text
        ELSE Strip(SliceTo(text, Min(positions)), Whitespace))

\* lines 111-116: the name that follows one title marker found at index
MTUCI_nameAt(fullText, marker, index) ==
    Bind(SliceFrom(fullText, index + Len(marker)), LAMBDA after :
    Bind(Strip(Slice(after, 1, Find(after, MTUCI_nameEnd)), Whitespace), LAMBDA cut :
    LET short == IF Len(cut) > MTUCI_maxNameLen THEN Split(cut, <<NL>>)[1] ELSE cut
    IN  LowerStr(CollapseWs(short))))

\* lines 107-116: the loop over the title markers has no break, the last marker found wins
RECURSIVE MTUCI_disciplineName(_, _, _)
MTUCI_disciplineName(fullText, i, disciplineName) ==
    IF i > Len(MTUCI_titleOfDocument) THEN disciplineName
    ELSE Bind(Find(fullText, MTUCI_titleOfDocument[i]), LAMBDA index :
             MTUCI_disciplineName(fullText, i + 1,
                 IF index # -1
                 THEN MTUCI_nameAt(fullText, MTUCI_titleOfDocument[i], index)
                 ELSE disciplineName))

\* lines 126-130: the list after one prerequisite marker found at index
MTUCI_previousAt(fullText, marker, index) ==
    Bind(SliceFrom(fullText, index + Len(marker)), LAMBDA after :
    LET subText == SliceTo(after, Find(after, <<".">>))
    IN
    Bind(SelectSeq(Split(subText, <<",", SP>>), MTUCI_checkText), LAMBDA pieces :
        [k \in 1..Len(pieces) |->
            Replace(Strip(pieces[k], {SP, LQ, RQ}), <<SP, SP>>, <<SP>>)]))

\* lines 122-131: the first prerequisite marker found is used (break)
RECURSIVE MTUCI_previousDisciplines(_, _)
MTUCI_previousDisciplines(fullText, i) ==
    IF i > Len(MTUCI_textForPreviousDisciplines) THEN <<>>
    ELSE Bind(Find(fullText, MTUCI_textForPreviousDisciplines[i]), LAMBDA index :
             IF index # -1
             THEN MTUCI_previousAt(fullText, MTUCI_textForPreviousDisciplines[i], index)
             ELSE MTUCI_previousDisciplines(fullText, i + 1))

\* lines 157-164: the themes of one section body, themes_parts = <<before, heading, text, ...>>
RECURSIVE MTUCI_themes(_, _)
MTUCI_themes(themes_parts, j) ==
    IF j + 1 > Len(themes_parts) THEN <<>>
    ELSE LET joined == themes_parts[j] \o themes_parts[j + 1]
         IN
         Bind(MTUCI_cut_by_words(joined, MTUCI_endTextForTopics), LAMBDA cut :
         LET bare == LStrip(SliceFrom(cut, MTUCI_themeHeadingLen(cut)), Whitespace)
         IN
         Bind(Strip(bare, {".", SP}), LAMBDA theme_title :
             (IF theme_title # <<>> THEN <<theme_title>> ELSE <<>>)
                 \o MTUCI_themes(themes_parts, j + 2)))

\* lines 143-169: the sections of parts = <<before, header, body, header, body, ...>>
RECURSIVE MTUCI_sections(_, _, _)
MTUCI_sections(parts, i, sections) ==
    IF i + 1 > Len(parts) THEN sections
    ELSE LET section_header == parts[i]
         IN
         Bind(parts[i + 1], LAMBDA section_body :
         Bind(MTUCI_reSplit("theme", section_body), LAMBDA themes_parts :
         Bind(Strip(themes_parts[1], Whitespace), LAMBDA first :
         Bind(IF first = <<>> THEN Strip(section_header, Whitespace)
              ELSE first, LAMBDA section_name :
             MTUCI_sections(parts, i + 2,
                 IF Len(themes_parts) > 1
                 THEN DictSet(sections, section_name,
                              PyList(MTUCI_themes(themes_parts, 2)))
                 ELSE DictSet(sections,
                              MTUCI_cut_by_words(section_name, MTUCI_endTextForTopics),
                              PyList(<<>>)))))))

\* lines 140-171: the topics of the section subText
MTUCI_topicsOf(subText) ==
    MTUCI_sections(MTUCI_reSplit("section", subText), 2, EmptyDict)

\* lines 137-171: the topics after one topic marker found at index
MTUCI_topicsAt(fullText, marker, index) ==
    Bind(CollapseWs(SliceFrom(fullText, index + Len(marker))), LAMBDA after :
        MTUCI_topicsOf(SliceTo(after, Find(after, MTUCI_endTextForEducationalUnits))))

\* lines 133-172: the first topic marker found is used (break)
RECURSIVE MTUCI_topics(_, _)
MTUCI_topics(fullText, i) ==
    IF i > Len(MTUCI_textForEducationalUnits) THEN EmptyDict
    ELSE Bind(Find(fullText, MTUCI_textForEducationalUnits[i]), LAMBDA index :
             IF index # -1
             THEN MTUCI_topicsAt(fullText, MTUCI_textForEducationalUnits[i], index)
             ELSE MTUCI_topics(fullText, i + 1))

\* ParserMTUCI.readTextFromFileDiscipline: (disciplineName, arguments) or (None, None)
MTUCI_readTextFromFileDiscipline(file) ==
    IF ~file.ok THEN Rejected
    ELSE Bind(MTUCI_disciplineName(file.text, 1, <<>>), LAMBDA disciplineName :
             IF disciplineName = <<>> THEN Rejected
             ELSE <<PyStr(disciplineName),
                    Record2(MTUCI_previousDisciplines(file.text, 1),
                            MTUCI_topics(file.text, 1))>>)


(***************************************************************************)
(* Regular expressions of the readers, on characters                       *)
(***************************************************************************)
\* the length of the match of r'\d+\.\d+' at the start of s, 0 if none
MatchNumDotNum(s) ==
    LET n == MatchNumDot(s)
    IN
    Bind(RunLen(SliceFrom(s, n), Digits), LAMBDA m :
        IF n > 0 /\ m > 0 THEN n + m ELSE 0)

\* the length of the match of r'\d+\)\s*(\S+)' at the start of s, 0 if none
MatchNumParenWord(s) ==
    Bind(RunLen(s, Digits), LAMBDA n :
    Bind(RunLen(SliceFrom(s, n + 1), Whitespace), LAMBDA w :
    Bind(SliceFrom(s, n + 1 + w), LAMBDA rest :
    Bind(RunLen(rest, {rest[i] : i \in 1..Len(rest)} \ Whitespace), LAMBDA g :
        IF n > 0 /\ n < Len(s) /\ s[n + 1] = ")" /\ g > 0 THEN n + 1 + w + g ELSE 0))))

\* the length of the match of a pattern at the start of s, 0 if none
MatchLen(pattern, s) ==
    CASE pattern = "NumDot" -> MatchNumDot(s)
      [] pattern = "NumDotNum" -> MatchNumDotNum(s)
      [] pattern = "NumParenWord" -> MatchNumParenWord(s)

\* re.sub(pattern, '', s): the matches are removed left to right
RECURSIVE SubEmpty(_, _)
SubEmpty(s, pattern) ==
    IF s = <<>> THEN <<>>
    ELSE IF MatchLen(pattern, s) > 0
         THEN SubEmpty(SliceFrom(s, MatchLen(pattern, s)), pattern)
         ELSE <<Head(s)>> \o SubEmpty(Tail(s), pattern)

(***************************************************************************)
(* ParserSpbPU                                                             *)
(***************************************************************************)
\* "Изучение дисциплины базируется на результатах освоения следующих дисциплин: \n"
SpbPU_textForPreviousDisciplines == <<"IzuchenieBaziruetsya", SP, NL>>
\* "РАБОЧАЯ ПРОГРАММА ДИСЦИПЛИНЫ (МОДУЛЯ) \n"
SpbPU_titleOfDocument == <<"RabProgDiscModulya", SP, NL>>
\* "4.2. Содержание разделов и результаты изучения дисциплины \nРаздел дисциплины Содержание \n"
SpbPU_textForEducationalUnits ==
    <<"42SoderzhanieRazdelov", SP, NL, "RazdelDiscSoderzhanie", SP, NL>>
\* "5. Образовательные технологии"
SpbPU_endTextForEducationalUnits == <<"5ObrazTehnologii">>
\* the literal "Темы:" of __refactorText
SpbPU_temy == <<"Temy">>
\* what [А-ЯA-Z] matches: a capital letter, or a phrase that starts with one
SpbPU_capital == UpperLetters \cup {"Temy"}

\* re.sub(r'\n(?=[А-ЯA-Z])', '$', text)
RECURSIVE SpbPU_subNlCapital(_)
SpbPU_subNlCapital(s) ==
    IF s = <<>> THEN <<>>
    ELSE IF Head(s) = NL /\ Len(s) > 1 /\ s[2] \in SpbPU_capital
         THEN <<"$">> \o SpbPU_subNlCapital(Tail(s))
         ELSE <<Head(s)>> \o SpbPU_subNlCapital(Tail(s))

SpbPU_refactorText(text) ==
    LET t1 == SpbPU_subNlCapital(text)
        t2 == SubEmpty(t1, "NumDotNum")
        t3 == Replace(t2, SpbPU_temy, <<>>)
        t4 == Strip(CollapseWs(t3), Whitespace)
        t5 == SubEmpty(t4, "NumParenWord")
        t6 == Replace(Replace(t5, <<".", SP>>, <<"$">>), <<";">>, <<"$">>)
    IN  Replace(t6, <<".">>, <<>>)

SpbPU_checkText(text) ==
    /\ \E i \in 1..Len(text) : text[i] \in Letters
    /\ Len(Strip(text, Whitespace)) > 2

\* lines 132-135: the units of the accumulated body text, appended to the list
SpbPU_units(textOfEducationalUnits, listOfEducationalUnits) ==
    Bind(SelectSeq(Split(SpbPU_refactorText(textOfEducationalUnits), <<"$">>),
                   SpbPU_checkText), LAMBDA pieces :
        listOfEducationalUnits \o [k \in 1..Len(pieces) |-> Strip(pieces[k], Whitespace)])

\* lines 137-139: the key a topic is stored under
SpbPU_topicKey(nameTopic) ==
    LET cut == SliceFrom(nameTopic, Find(nameTopic, <<".", SP>>) + 2)
    IN  Strip(SubEmpty(cut, "NumDot"), Whitespace)

\* lines 129-151: the loop over the lines of the topic block; st is the loop's variables
RECURSIVE SpbPU_segment(_, _, _, _)
SpbPU_segment(lines, i, linesBoldFont, st) ==
    IF i > Len(lines) THEN st.resultForAllTopics
    ELSE
    LET line == lines[i]
    IN
    Bind((i = Len(lines)), LAMBDA last :
        IF Strip(line, Whitespace) \in Range(linesBoldFont) \/ last
        THEN
          Bind((st.flagTopic /\ st.flagUnits) \/ last, LAMBDA finalize :
          Bind(IF finalize
               THEN SpbPU_units(st.textOfEducationalUnits, st.listOfEducationalUnits)
               ELSE st.listOfEducationalUnits, LAMBDA units :
          LET text1 == IF finalize THEN SpbPU_refactorText(st.textOfEducationalUnits)
                       ELSE st.textOfEducationalUnits
          IN
          Bind(/\ finalize
               /\ st.nameTopic # <<>>
               /\ units # <<>>
               /\ st.nameTopic[1] \in Digits, LAMBDA store :
          Bind(IF store THEN SliceFrom(st.nameTopic,
                                       Find(st.nameTopic, <<".", SP>>) + 2)
               ELSE st.nameTopic, LAMBDA name1 :
          LET result1 == IF store
                         THEN DictSet(st.resultForAllTopics, SpbPU_topicKey(st.nameTopic),
                                      PyList(units))
                         ELSE st.resultForAllTopics
              name2 == IF st.flagUnits THEN <<>>
                       ELSE IF store THEN SubEmpty(name1, "NumDot") ELSE name1
              name3 == IF line # <<>> /\ line[1] \in Digits THEN <<>> ELSE name2
          IN  SpbPU_segment(lines, i + 1, linesBoldFont,
                  [nameTopic |-> name3 \o line,
                   listOfEducationalUnits |-> IF st.flagUnits THEN <<>> ELSE units,
                   textOfEducationalUnits |-> IF st.flagUnits THEN <<>> ELSE text1,
                   flagTopic |-> TRUE,
                   flagUnits |-> FALSE,
                   resultForAllTopics |-> result1])))))
        ELSE SpbPU_segment(lines, i + 1, linesBoldFont,
                  [st EXCEPT !.textOfEducationalUnits = @ \o line \o <<NL>>,
                             !.flagUnits = TRUE]))

\* lines 119-151: the topic block is cut out with no test that its marker was found
SpbPU_topics(fullText, linesBoldFont) ==
    LET indexOfEducationalUnits == Find(fullText, SpbPU_textForEducationalUnits)
    IN
    Bind(SliceFrom(fullText,
                   indexOfEducationalUnits + Len(SpbPU_textForEducationalUnits)), LAMBDA after :
    LET subText == SliceTo(after, Find(after, SpbPU_endTextForEducationalUnits))
    IN  SpbPU_segment(Split(subText, <<NL>>), 1, linesBoldFont,
            [nameTopic |-> <<>>, listOfEducationalUnits |-> <<>>,
             textOfEducationalUnits |-> <<>>, flagTopic |-> FALSE, flagUnits |-> FALSE,
             resultForAllTopics |-> EmptyDict]))

\* lines 106-108
SpbPU_disciplineName(fullText) ==
    Bind(SliceFrom(fullText, Find(fullText, SpbPU_titleOfDocument)
                                + Len(SpbPU_titleOfDocument)), LAMBDA after :
        Strip(Slice(after, 1, Find(after, <<RQ>>)), Whitespace))

\* lines 110-117
SpbPU_previousDisciplines(fullText) ==
    Bind(Find(fullText, SpbPU_textForPreviousDisciplines), LAMBDA index :
    Bind(SliceFrom(fullText, index + Len(SpbPU_textForPreviousDisciplines)), LAMBDA after :
    LET subText == SliceTo(after, Find(after, <<BUL>>))
    IN
    Bind(SelectSeq(Split(subText, <<NL>>), SpbPU_checkText), LAMBDA pieces :
        IF index = -1 THEN <<>>
        ELSE [k \in 1..Len(pieces) |-> Strip(pieces[k], Whitespace)])))

\* ParserSpbPU.readTextFromFileDiscipline: (disciplineName, arguments) or (None, None)
SpbPU_readTextFromFileDiscipline(file) ==
    IF ~file.ok THEN Rejected
    ELSE IF ~Contains(file.text, SpbPU_titleOfDocument) THEN Rejected
    ELSE <<PyStr(SpbPU_disciplineName(file.text)),
           Record2(SpbPU_previousDisciplines(file.text),
                   SpbPU_topics(file.text, file.bold))>>


(***************************************************************************)
(* ParserMPU                                                               *)
(***************************************************************************)
\* "РАБОЧАЯ ПРОГРАММА ДИСЦИПЛИНЫ"
MPU_titleOfDocument == <<"RABPROGDISC">>
\* "Направление подготовки"
MPU_disciplineNameEndMarker == <<"NapravleniePodgotovki">>
\* "дисциплинами и практиками ОПОП", "дисциплинами и практиками ООП"
MPU_nextDisciplinesMarkers == << <<"DisciplinamiOPOP">>, <<"DisciplinamiOOP">> >>
\* "3.3 Содержание дисциплины", "3.3 Содержание", "Содержание дисциплины": the three
\* literals of _extract_topics share their words
MPU_contentStartFull == <<"3", ".", "3", SP, "Soderzhanie", SP, "discipliny">>
MPU_contentStartShort == <<"3", ".", "3", SP, "Soderzhanie">>
MPU_contentStartMarker == <<"Soderzhanie", SP, "discipliny">>
\* "4 Учебно-методическое", "4. Учебно-методическое", "4."
MPU_contentEndPatterns ==
    << <<"4", SP, "UchebnoMetod">>, <<"4", ".", SP, "UchebnoMetod">>, <<"4", ".">> >>
\* the 10000 of "end_pos = content_pos + 10000"
MPU_defaultContentLen == 10000
\* what (?:Раздел|Тема) matches under re.IGNORECASE
MPU_headingWords == {"Razdel", "Tema", "razdel", "tema"}
\* the characters of '•-*●·'
MPU_bullets == {BUL, "-", "*"}

MPU_clean_text(text) == Strip(CollapseWs(text), Whitespace)

MPU_check_text(text) ==
    /\ Len(text) >= 3
    /\ \E i \in 1..Len(text) : text[i] \in Letters

\* lines 103-118
MPU_extract_discipline_name(full_text) ==
    Bind(Find(full_text, MPU_titleOfDocument), LAMBDA title_pos :
    Bind(SliceFrom(full_text, title_pos + Len(MPU_titleOfDocument)), LAMBDA after_title :
    Bind(Find(after_title, MPU_disciplineNameEndMarker), LAMBDA dir_pos :
    Bind(SelectSeq(Split(after_title, <<NL>>),
                   LAMBDA l : Strip(l, Whitespace) # <<>>), LAMBDA lines :
    LET name == IF dir_pos # -1 THEN Strip(SliceTo(after_title, dir_pos), Whitespace)
                ELSE IF lines # <<>> THEN Strip(lines[1], Whitespace) ELSE <<>>
    IN  IF title_pos = -1 THEN <<>>
        ELSE MPU_clean_text(Strip(name, {LQ, RQ, DQ}))))))

\* lines 151-166: the items of one line of the block
MPU_lineItems(raw) ==
    Bind(Strip(raw, Whitespace), LAMBDA line :
    Bind(RStrip(Strip(LStrip(line, MPU_bullets \cup Whitespace), Whitespace), {";"}), LAMBDA clean :
    Bind(Split(line, <<";">>), LAMBDA parts :
    LET stripped == [k \in 1..Len(parts) |-> Strip(parts[k], Whitespace)]
    IN  IF line = <<>> THEN <<>>
        ELSE IF line[1] \in MPU_bullets
             THEN (IF MPU_check_text(clean) THEN <<clean>> ELSE <<>>)
             ELSE IF Contains(line, <<";">>) /\ Len(line) > 10
                  THEN SelectSeq(stripped, MPU_check_text)
                  ELSE <<>>)))

RECURSIVE MPU_blockItems(_)
MPU_blockItems(lines) ==
    IF lines = <<>> THEN <<>>
    ELSE MPU_lineItems(Head(lines)) \o MPU_blockItems(Tail(lines))

\* lines 124-131: the first marker of the list that occurs in the text, 0 if none
MPU_usedMarker(full_text) ==
    Bind({i \in 1..Len(MPU_nextDisciplinesMarkers) :
             Contains(full_text, MPU_nextDisciplinesMarkers[i])}, LAMBDA found :
        IF found = {} THEN 0 ELSE Min(found))

\* lines 136-166: the items of the block that follows the marker used
MPU_nextAt(full_text, used_marker) ==
    Bind(Find(full_text, used_marker), LAMBDA marker_pos :
    Bind(SliceFrom(full_text, marker_pos + Len(used_marker)), LAMBDA after_marker :
    Bind(Find(after_marker, <<":">>), LAMBDA colon_pos :
    Bind(SliceFrom(after_marker, colon_pos + 1), LAMBDA after_colon :
    Bind(Find(after_colon, <<NL, "3", ".">>), LAMBDA dot3 :
    Bind(Find(after_colon, <<NL, "3", SP>>), LAMBDA sp3 :
    LET section_3_pos == IF dot3 # -1 THEN dot3
                         ELSE IF sp3 # -1 THEN sp3 ELSE Len(after_colon)
    IN  IF colon_pos = -1 THEN <<>>
        ELSE MPU_blockItems(Split(SliceTo(after_colon, section_3_pos), <<NL>>))))))))

\* lines 120-168
MPU_extract_next_disciplines(full_text) ==
    Bind(MPU_usedMarker(full_text), LAMBDA m :
        IF m = 0 THEN <<>>
        ELSE MPU_nextAt(full_text, MPU_nextDisciplinesMarkers[m]))


\* the length of the match at the start of s of the letters ls, each followed by a
\* full stop, with optional white space between them, letter case ignored
\* (r'т\.\s*д\.' and its like); -1 if none
RECURSIVE MPU_abbrevLen(_, _)
MPU_abbrevLen(s, ls) ==
    IF Len(s) < 2 \/ Lower(s[1]) # ls[1] \/ s[2] # "." THEN -1
    ELSE IF Len(ls) = 1 THEN 2
    ELSE Bind(RunLen(SliceFrom(s, 2), Whitespace), LAMBDA w :
         Bind(MPU_abbrevLen(SliceFrom(s, 2 + w), Tail(ls)), LAMBDA r :
             IF r = -1 THEN -1 ELSE 2 + w + r))

\* re.sub of such a pattern by the string to
RECURSIVE MPU_subAbbrev(_, _, _)
MPU_subAbbrev(s, ls, to) ==
    IF s = <<>> THEN <<>>
    ELSE IF MPU_abbrevLen(s, ls) > 0
         THEN to \o MPU_subAbbrev(SliceFrom(s, MPU_abbrevLen(s, ls)), ls, to)
         ELSE <<Head(s)>> \o MPU_subAbbrev(Tail(s), ls, to)

\* re.split(r'\.\s+', text)
RECURSIVE MPU_splitDotWs(_)
MPU_splitDotWs(text) ==
    Bind({i \in 1..(Len(text) - 1) : text[i] = "." /\ text[i + 1] \in Whitespace}, LAMBDA hits :
        IF hits = {} THEN <<text>>
        ELSE LET i == Min(hits)
             IN
             Bind(SliceFrom(text, i), LAMBDA rest :
                 <<SliceTo(text, i - 1)>>
                     \o MPU_splitDotWs(SliceFrom(rest, RunLen(rest, Whitespace)))))

\* re.sub(r'^\d+\.?\d*\s*', '', sent)
MPU_dropLeadingNumber(sent) ==
    Bind(RunLen(sent, Digits), LAMBDA n :
    Bind(IF n < Len(sent) /\ sent[n + 1] = "." THEN 1 ELSE 0, LAMBDA dot :
    Bind(RunLen(SliceFrom(sent, n + dot), Digits), LAMBDA m :
    LET w == RunLen(SliceFrom(sent, n + dot + m), Whitespace)
    IN  IF n = 0 THEN sent ELSE SliceFrom(sent, n + dot + m + w))))

\* lines 184-192: one piece of the split, restored and cleaned
MPU_sentence(piece) ==
    LET r1 == Replace(piece, <<"T", "D">>, <<"t", ".", "d", ".">>)
        r2 == Replace(r1, <<"T", "P">>, <<"t", ".", "p", ".">>)
        r3 == Replace(r2, <<"I", "T", "D">>, <<"i", SP, "t", ".", "d", ".">>)
        r4 == Replace(r3, <<"I", "T", "P">>, <<"i", SP, "t", ".", "p", ".">>)
    IN  MPU_clean_text(MPU_dropLeadingNumber(Strip(r4, Whitespace)))

\* lines 170-194
MPU_split_into_sentences(text) ==
    LET t0 == Replace(text, <<NL>>, <<SP>>)
        t1 == MPU_subAbbrev(t0, <<"t", "d">>, <<"T", "D">>)
        t2 == MPU_subAbbrev(t1, <<"t", "p">>, <<"T", "P">>)
        t3 == MPU_subAbbrev(t2, <<"i", "t", "d">>, <<"I", "T", "D">>)
        t4 == MPU_subAbbrev(t3, <<"i", "t", "p">>, <<"I", "T", "P">>)
        pieces == MPU_splitDotWs(t4)
        sentences == [k \in 1..Len(pieces) |-> MPU_sentence(pieces[k])]
    IN  IF text = <<>> THEN <<>>
        ELSE SelectSeq(sentences, LAMBDA x : MPU_check_text(x) /\ Len(x) > 5)

\* (?:Раздел|Тема)\s*\d+ matches at index i of t
MPU_headingAt(t, i) ==
    /\ i < Len(t)
    /\ t[i + 1] \in MPU_headingWords
    /\ Bind(SliceFrom(t, i + 1), LAMBDA rest :
       LET w == RunLen(rest, Whitespace)
       IN  RunLen(SliceFrom(rest, w), Digits) > 0)

\* lines 224-226: for each match of topic_pattern in content_text from index from on,
\* the sentences of its group 2
RECURSIVE MPU_topicMatches(_, _)
MPU_topicMatches(t, from) ==
    Bind({i \in from..(Len(t) - 1) : MPU_headingAt(t, i)}, LAMBDA heads :
        IF heads = {} THEN <<>>
        ELSE
        LET i == Min(heads)
            r1 == SliceFrom(t, i + 1)
        IN
        Bind(i + 1 + RunLen(r1, Whitespace), LAMBDA a :
        Bind(a + RunLen(SliceFrom(t, a), Digits), LAMBDA b :
        Bind(IF b < Len(t) /\ t[b + 1] \in {".", ":", "-"} THEN b + 1 ELSE b, LAMBDA c :
        Bind(c + RunLen(SliceFrom(t, c), Whitespace), LAMBDA d :
        Bind({j \in d..(Len(t) - 1) : MPU_headingAt(t, j)}, LAMBDA nexts :
        Bind(IF nexts = {} THEN Len(t) ELSE Min(nexts), LAMBDA e :
        LET topic_content == Strip(Slice(t, d, e), Whitespace)
        IN  <<MPU_split_into_sentences(topic_content)>> \o MPU_topicMatches(t, e))))))))

\* lines 227-231: the loop body, over the matches from the k-th on
RECURSIVE MPU_storeTopics(_, _, _)
MPU_storeTopics(matches, k, topics) ==
    IF k > Len(matches) THEN topics
    ELSE Bind(matches[k], LAMBDA sentences :
         Bind(IF sentences = <<>> THEN <<>> ELSE Tail(sentences), LAMBDA subtopics :
             MPU_storeTopics(matches, k + 1,
                 IF sentences # <<>> /\ subtopics # <<>>
                 THEN DictSet(topics, sentences[1], PyList(subtopics))
                 ELSE topics)))

\* lines 224-231: the topics of content_text
MPU_topicsOf(content_text) == MPU_storeTopics(MPU_topicMatches(content_text, 0), 1, EmptyDict)

\* lines 200-206: where the content starts, -1 if no marker occurs
MPU_contentPos(full_text) ==
    IF Find(full_text, MPU_contentStartFull) # -1 THEN Find(full_text, MPU_contentStartFull)
    ELSE IF Find(full_text, MPU_contentStartShort) # -1
         THEN Find(full_text, MPU_contentStartShort)
         ELSE Find(full_text, MPU_contentStartMarker)

\* lines 208-215: the first end pattern OF THE LIST found after content_pos decides
MPU_contentEnd(full_text, content_pos) ==
    Bind({i \in 1..Len(MPU_contentEndPatterns) :
             FindFrom(full_text, MPU_contentEndPatterns[i], content_pos) # -1}, LAMBDA found :
        IF found = {} THEN content_pos + MPU_defaultContentLen
        ELSE FindFrom(full_text, MPU_contentEndPatterns[Min(found)], content_pos))

\* line 217: content_text, for a content_pos that was found
MPU_content_text(full_text) ==
    Bind(MPU_contentPos(full_text), LAMBDA content_pos :
        Slice(full_text, content_pos, MPU_contentEnd(full_text, content_pos)))

\* lines 196-233
MPU_extract_topics(full_text) ==
    IF MPU_contentPos(full_text) = -1 THEN EmptyDict
    ELSE MPU_topicsOf(MPU_content_text(full_text))

\* lines 247-249: the name made from the file name
MPU_nameFromFile(file) ==
    LET base == Replace(file.stem \o <<".">> \o file.ext, <<".", "p", "d", "f">>, <<>>)
        kept == SelectSeq(base, LAMBDA c : c \notin ({"B", ".", "_"} \cup Digits))
    IN  Strip(Replace(kept, <<"_">>, <<SP>>), Whitespace)

\* ParserMPU._read_discipline_file: (name, arguments) or (None, None)
MPU_read_discipline_file(file) ==
    IF ~file.ok \/ file.text = <<>> THEN Rejected
    ELSE IF ~Contains(file.text, MPU_titleOfDocument) THEN Rejected
    ELSE Bind(MPU_extract_discipline_name(file.text), LAMBDA extracted :
         LET name == IF extracted = <<>> THEN MPU_nameFromFile(file) ELSE extracted
         IN  <<PyStr(name),
                Record3(<<>>, MPU_extract_next_disciplines(file.text),
                        MPU_extract_topics(file.text))>>)


(***************************************************************************)
(* ParserGUAP                                                              *)
(***************************************************************************)
DASH == "dash"          \* the minus sign and the en and em dashes
\* the head of the four patterns of _extract_discipline_name (re.IGNORECASE):
\* "РАБОЧАЯ ПРОГРАММА ДИСЦИПЛИНЫ" and "Дисциплина"; the tails "входит", "реализуется"
GUAP_titleWord == "RABPROGDISC"
GUAP_disciplinaWord == "Disciplina"
GUAP_vhodit == "vhodit"
GUAP_realizuetsya == "realizuetsya"
\* "Место дисциплины в структуре ОП" of section_pattern
GUAP_mestoDiscipliny == "MestoDisciplinyVStruktureOP"
\* the literals of prev_patterns and next_patterns
GUAP_bazirovatsya == <<"bazirovatsyaNaZnaniyah">>
GUAP_mozhetBazirovatsya == <<"mozhet", SP, "bazirovatsyaNaZnaniyah">>
GUAP_sleduyushchih == <<"sleduyushchihDisciplin:">>
GUAP_priIzucheniiSleduyushchih == <<"priIzuchenii", SP, "sleduyushchihDisciplin:">>
GUAP_ispolzovatsya == <<"ispolzovatsyaPriIzucheniiDrugihDisciplin:">>
GUAP_mogutIspolzovatsya == <<"mogut", SP, "ispolzovatsyaPriIzucheniiDrugihDisciplin:">>
GUAP_znaniya == <<"znaniya">>
GUAP_ispolzuyutsya == <<"ispolzuyutsyaPriIzucheniiDrugihDisciplin:">>
\* __stop_words: its glyphs, and of its fifty lower-case words and phrases "знания",
\* "дисциплин" and one more ("вкр")
GUAP_stop_words ==
    << <<"znaniya">>, <<"disciplin">>, <<DASH>>, <<BUL>>, <<"-">>, <<"_">>, <<"vkr">> >>
\* __bad_starts: its glyphs, and of its twenty short words "при", "и", "а"
GUAP_bad_starts ==
    { <<DASH>>, <<LQ>>, <<BUL>>, <<"-">>, <<"_">>, <<"p", "r", "i">>, <<"i">>, <<"a">> }
\* the phrases above that are made of letters and spaces, which [А-Яа-яA-Za-z\s\-] matches
GUAP_words ==
    {GUAP_titleWord, GUAP_disciplinaWord, GUAP_vhodit, GUAP_realizuetsya, "znaniya",
     "disciplin", "vkr", "mozhet", "mogut", "priIzuchenii",
     "bazirovatsyaNaZnaniyah"}
GUAP_openQuotes == {LQ, DQ}
GUAP_closeQuotes == {RQ, DQ}
GUAP_nameClass == Letters \cup Whitespace \cup {"-"} \cup GUAP_words

\* the characters in the order of their code points (the letters are Cyrillic)
CodeOrder ==
    <<CTL, NL, SP, DQ, "$", "'", "(", ")", "*", "+", ",", "-", ".">> \o DigitSeq
        \o <<":", ";", "_", NBSP, LQ, SHY, RQ>> \o UpperSeq \o LowerSeq \o <<ZWSP, DASH, BUL>>
Rank(c) ==
    IF \E i \in 1..Len(CodeOrder) : CodeOrder[i] = c
    THEN CHOOSE i \in 1..Len(CodeOrder) : CodeOrder[i] = c
    ELSE Len(CodeOrder) + 1

\* a < b as Python compares strings
StrLess(a, b) ==
    \E k \in 1..(Len(b)) :
        /\ \A j \in 1..(k - 1) : j <= Len(a) /\ Rank(a[j]) = Rank(b[j])
        /\ \/ k = Len(a) + 1
           \/ k <= Len(a) /\ Rank(a[k]) < Rank(b[k])

\* sorted(xs)
RECURSIVE Sorted(_)
Sorted(xs) ==
    IF xs = <<>> THEN <<>>
    ELSE Bind(Sorted(SubSeq(xs, 1, Len(xs) - 1)), LAMBDA rest :
         Bind(xs[Len(xs)], LAMBDA x :
         Bind({i \in 1..Len(rest) : ~StrLess(x, rest[i])}, LAMBDA before :
         Bind(IF before = {} THEN 0 ELSE Max(before), LAMBDA n :
             SubSeq(rest, 1, n) \o <<x>> \o SubSeq(rest, n + 1, Len(rest))))))

\* s.title()
TitleCase(s) ==
    [i \in 1..Len(s) |->
        IF i = 1 \/ s[i - 1] \notin Letters THEN Upper(s[i]) ELSE Lower(s[i])]

GUAP_clean_text(text) ==
    Strip(CollapseWs(Replace(text, <<NL>>, <<SP>>)), Whitespace)

\* r'HEAD\s*[«"]\s*([^»"]+)\s*[»"]' at index i of text: the group, or <<>> if no match
GUAP_quotedAt(text, head, i) ==
    LET afterHead == SliceFrom(text, i + 1)
    IN
    Bind(i + 1 + RunLen(afterHead, Whitespace), LAMBDA q :
    Bind({j \in (q + 1)..(Len(text) - 1) : text[j + 1] \in GUAP_closeQuotes}, LAMBDA closes :
        IF /\ i < Len(text) /\ text[i + 1] = head
           /\ q < Len(text) /\ text[q + 1] \in GUAP_openQuotes
           /\ closes # {} /\ Min(closes) > q + 1
        THEN Slice(text, q + 1, Min(closes))
        ELSE <<>>))

\* re.search of such a pattern: the group of the leftmost match, <<>> if none
GUAP_searchQuoted(text, head) ==
    Bind({i \in 0..(Len(text) - 1) : GUAP_quotedAt(text, head, i) # <<>>}, LAMBDA hits :
        IF hits = {} THEN <<>> ELSE GUAP_quotedAt(text, head, Min(hits)))

\* r'Дисциплина\s+([А-Яа-яA-Za-z\s\-]+?)\s+TAIL' at index i with w characters of leading
\* white space: the group, or <<>> if no match
GUAP_wordsAtWith(text, tail, i, w) ==
    LET p == i + 1 + w
    IN
    Bind({q \in (p + 1)..(Len(text) - 2) :
             /\ \A j \in (p + 1)..q : text[j] \in GUAP_nameClass
             /\ text[q + 1] \in Whitespace
             /\ Bind(SliceFrom(text, q), LAMBDA r :
                    RunLen(r, Whitespace) < Len(r)
                    /\ r[RunLen(r, Whitespace) + 1] = tail)}, LAMBDA ends :
        IF ends = {} THEN <<>> ELSE Slice(text, p, Min(ends)))

\* the same with the leading white space as long as the match allows (\s+ is greedy)
GUAP_wordsAt(text, tail, i) ==
    LET run == RunLen(SliceFrom(text, i + 1), Whitespace)
    IN
    Bind({w \in 1..run : GUAP_wordsAtWith(text, tail, i, w) # <<>>}, LAMBDA ws :
        IF i < Len(text) /\ text[i + 1] = GUAP_disciplinaWord /\ ws # {}
        THEN GUAP_wordsAtWith(text, tail, i, Max(ws))
        ELSE <<>>)

GUAP_searchWords(text, tail) ==
    Bind({i \in 0..(Len(text) - 1) : GUAP_wordsAt(text, tail, i) # <<>>}, LAMBDA hits :
        IF hits = {} THEN <<>> ELSE GUAP_wordsAt(text, tail, Min(hits)))

\* lines 221-224: the name made from the file name
GUAP_nameFromFile(file) ==
    Bind(IF IsAt(file.stem, <<"r", "p", "d", "_">>, 0) THEN SliceFrom(file.stem, 4)
         ELSE file.stem, LAMBDA f1 :
    Bind({n \in 1..(Len(f1) - 1) :
             /\ f1[Len(f1) - n] = "_"
             /\ \A j \in (Len(f1) - n + 1)..Len(f1) : f1[j] \in Digits}, LAMBDA tailDigits :
    LET f2 == IF tailDigits = {} THEN f1
              ELSE SliceTo(f1, Len(f1) - Max(tailDigits) - 1)
    IN  TitleCase(Replace(f2, <<"_">>, <<SP>>))))

\* lines 207-219: the groups of the four patterns, in their order
GUAP_nameCandidates(text) ==
    << GUAP_searchQuoted(text, GUAP_titleWord),
       GUAP_searchQuoted(text, GUAP_disciplinaWord),
       GUAP_searchWords(text, GUAP_vhodit),
       GUAP_searchWords(text, GUAP_realizuetsya) >>

\* ParserGUAP._extract_discipline_name
GUAP_extract_discipline_name(text, file) ==
    Bind([k \in 1..4 |-> GUAP_clean_text(GUAP_nameCandidates(text)[k])], LAMBDA names :
    Bind({k \in 1..4 : Len(names[k]) > 3}, LAMBDA good :
        IF good # {} THEN names[Min(good)] ELSE GUAP_nameFromFile(file)))


\* the characters of the class [−–•\*\-\s]
GUAP_leadGlyphs == {DASH, BUL, "*", "-"} \cup Whitespace
\* the characters of ' ,.;:«»"'
GUAP_edgePunct == {SP, ",", ".", ";", ":", LQ, RQ, DQ}

\* re.findall(r'[«"]\s*([^»"]+?)\s*[»"]', text) from index from on
RECURSIVE GUAP_findQuoted(_, _)
GUAP_findQuoted(text, from) ==
    Bind({i \in from..(Len(text) - 1) :
             /\ text[i + 1] \in GUAP_openQuotes
             /\ \E j \in (i + 2)..Len(text) :
                    /\ text[j] \in GUAP_closeQuotes
                    /\ \A k \in (i + 2)..(j - 1) : text[k] \notin GUAP_closeQuotes
                    /\ j > i + 2}, LAMBDA opens :
        IF opens = {} THEN <<>>
        ELSE LET i == Min(opens)
             IN
             Bind(Min({j \in (i + 2)..Len(text) : text[j] \in GUAP_closeQuotes}), LAMBDA close :
             Bind(SubSeq(text, i + 2, close - 1), LAMBDA content :
             LET group == IF Strip(content, Whitespace) = <<>> THEN <<Head(content)>>
                          ELSE Strip(content, Whitespace)
             IN  <<group>> \o GUAP_findQuoted(text, close))))

\* lines 299-309: the items of one line of the block
GUAP_lineItems(raw) ==
    LET l1 == Strip(raw, Whitespace)
        l2 == LStrip(l1, GUAP_leadGlyphs \cup Digits \cup {"+", "."})
    IN
    Bind(Strip(l2, GUAP_edgePunct), LAMBDA line :
    Bind(Split(line, <<",">>), LAMBDA parts :
    LET stripped == [k \in 1..Len(parts) |-> Strip(parts[k], {SP, LQ, RQ, DQ})]
    IN  IF Len(line) > 3
        THEN IF Contains(line, <<",">>) /\ \A k \in 1..Len(line) : line[k] \notin Digits
             THEN SelectSeq(stripped, LAMBDA x : x # <<>>)
             ELSE <<line>>
        ELSE <<>>))

RECURSIVE GUAP_blockItems(_)
GUAP_blockItems(lines) ==
    IF lines = <<>> THEN <<>>
    ELSE GUAP_lineItems(Head(lines)) \o GUAP_blockItems(Tail(lines))

\* ParserGUAP._extract_list_items
GUAP_extract_list_items(text_block) ==
    Bind(LStrip(text_block, GUAP_leadGlyphs), LAMBDA block :
    Bind(GUAP_findQuoted(block, 0), LAMBDA quoted :
    LET q == [k \in 1..Len(quoted) |-> Strip(quoted[k], Whitespace)]
    IN  SelectSeq(q, LAMBDA x : x # <<>>) \o GUAP_blockItems(Split(block, <<NL>>))))

\* text_lower.split()[0], "" for a blank text
GUAP_firstWord(text) ==
    Bind(LStrip(text, Whitespace), LAMBDA t :
        SliceTo(t, RunLen(t, {t[i] : i \in 1..Len(t)} \ Whitespace)))

\* ParserGUAP._is_valid_discipline
GUAP_is_valid_discipline(text) ==
    /\ Len(text) >= 3
    /\ \A k \in 1..Len(GUAP_stop_words) : ~Contains(LowerStr(text), GUAP_stop_words[k])
    /\ GUAP_firstWord(LowerStr(text)) \notin GUAP_bad_starts

\* lines 369-374: one item trimmed and capitalised
GUAP_cleanItem(raw) ==
    LET i1 == Strip(raw, Whitespace)
        i2 == LStrip(i1, GUAP_leadGlyphs)
    IN
    Bind(Strip(i2, GUAP_edgePunct \cup {"'"}), LAMBDA i3 :
        IF Len(i3) > 1 THEN <<Upper(i3[1])>> \o Tail(i3) ELSE i3)

\* the key of line 382 if it were the item itself
GUAP_normalizedExact(item) == item

\* re.sub(r'\s+', '', item.lower())
GUAP_normalized(item) == SelectSeq(LowerStr(item), LAMBDA c : c \notin Whitespace)

\* lines 368-387: the loop, seen is the set of keys met so far
RECURSIVE GUAP_cleanLoop(_, _)
GUAP_cleanLoop(items, seen) ==
    IF items = <<>> THEN <<>>
    ELSE Bind(GUAP_cleanItem(Head(items)), LAMBDA item :
         LET keep == /\ Len(item) >= 3
                     /\ GUAP_is_valid_discipline(item)
                     /\ GUAP_normalized(item) \notin seen
         IN  IF keep
             THEN <<item>> \o GUAP_cleanLoop(Tail(items), seen \cup {GUAP_normalized(item)})
             ELSE GUAP_cleanLoop(Tail(items), seen))

\* ParserGUAP._clean_discipline_list
GUAP_clean_discipline_list(items) == Sorted(GUAP_cleanLoop(items, {}))

\* _remove_intersection with its "if common:" branch never taken
GUAP_keep_intersection(prev_list, next_list) == <<prev_list, next_list>>

\* ParserGUAP._remove_intersection: <<prev_list, next_list>>
GUAP_remove_intersection(prev_list, next_list) ==
    Bind(Range(prev_list) \cap Range(next_list), LAMBDA common :
        IF prev_list = <<>> \/ next_list = <<>> THEN <<prev_list, next_list>>
        ELSE <<SelectSeq(prev_list, LAMBDA x : x \notin common),
               SelectSeq(next_list, LAMBDA x : x \notin common)>>)


\* what [A-ZА-Я] matches under re.IGNORECASE: a letter, or a phrase (each starts with one)
GUAP_letterStart ==
    Letters \cup GUAP_words
        \cup {GUAP_mestoDiscipliny, "sleduyushchihDisciplin:",
              "ispolzovatsyaPriIzucheniiDrugihDisciplin:",
              "ispolzuyutsyaPriIzucheniiDrugihDisciplin:"}

\* the lookaheads that end a group, at index j of text:
\* "NlNumDot" is \n\d+\. , "Para" is \n\n|\n\d+\. , "Line" is \n\n|\n[A-ZА-Я]
GUAP_stopAt(text, j, kind) ==
    /\ j + 2 <= Len(text)
    /\ text[j + 1] = NL
    /\ \/ kind # "NlNumDot" /\ text[j + 2] = NL
       \/ kind # "Line" /\ MatchNumDot(SliceFrom(text, j + 1)) > 0
       \/ kind = "Line" /\ text[j + 2] \in GUAP_letterStart

\* (.*?)(?=lookahead|\Z) from index start on
GUAP_group(text, start, kind) ==
    Bind({j \in start..Len(text) : GUAP_stopAt(text, j, kind)}, LAMBDA stops :
        Slice(text, start, IF stops = {} THEN Len(text) ELSE Min(stops)))

\* re.search(r'A.*?B(.*?)(?=...)', text, re.DOTALL): <<matched, group>>
GUAP_searchBlock(text, a, b, kind) ==
    Bind(Find(text, a), LAMBDA i :
    Bind(IF i = -1 THEN -1 ELSE FindFrom(text, b, i + Len(a)), LAMBDA j :
        IF j = -1 THEN <<FALSE, <<>>>>
        ELSE <<TRUE, GUAP_group(text, j + Len(b), kind)>>))

\* lines 240-246: the text of section 2, <<matched, section_text>>
GUAP_section(text) ==
    Bind({i \in 0..(Len(text) - 1) :
             /\ IsAt(text, <<"2", ".">>, i)
             /\ Bind(SliceFrom(text, i + 2), LAMBDA r :
                Bind(RunLen(r, Whitespace), LAMBDA w :
                    w < Len(r) /\ r[w + 1] = GUAP_mestoDiscipliny))}, LAMBDA hits :
    LET i == Min(hits)
        w == RunLen(SliceFrom(text, i + 2), Whitespace)
    IN  IF hits = {} THEN <<FALSE, <<>>>>
        ELSE <<TRUE, GUAP_group(text, i + 2 + w + 1, "NlNumDot")>>)

\* lines 253-259 and 267-273: the patterns are tried in order until one gives a
\* non-empty list; found is <<matched, group>> for each pattern
RECURSIVE GUAP_firstList(_)
GUAP_firstList(found) ==
    IF found = <<>> THEN <<>>
    ELSE Bind(IF found[1][1] THEN GUAP_extract_list_items(found[1][2]) ELSE <<>>, LAMBDA items :
             IF items # <<>> THEN items ELSE GUAP_firstList(Tail(found)))

\* ParserGUAP._extract_disciplines_lists up to its two _clean_discipline_list calls:
\* <<prev_list, next_list>> before _remove_intersection
GUAP_cleaned_lists(text) ==
    LET section == GUAP_section(text)
        st == section[2]
        prev_raw == GUAP_firstList(
            << GUAP_searchBlock(st, GUAP_bazirovatsya, GUAP_priIzucheniiSleduyushchih, "Line"),
               GUAP_searchBlock(st, GUAP_mozhetBazirovatsya, GUAP_sleduyushchih, "Para") >>)
        next_raw == GUAP_firstList(
            << GUAP_searchBlock(st, <<>>, GUAP_ispolzovatsya, "Para"),
               GUAP_searchBlock(st, <<>>, GUAP_mogutIspolzovatsya, "Para"),
               GUAP_searchBlock(st, GUAP_znaniya, GUAP_ispolzuyutsya, "Para") >>)
    IN  IF ~section[1] THEN << <<>>, <<>> >>
        ELSE <<GUAP_clean_discipline_list(prev_raw), GUAP_clean_discipline_list(next_raw)>>

\* ParserGUAP._extract_disciplines_lists: <<prev_list, next_list>>
GUAP_extract_disciplines_lists(text) ==
    IF ~GUAP_section(text)[1] THEN << <<>>, <<>> >>
    ELSE GUAP_remove_intersection(GUAP_cleaned_lists(text)[1], GUAP_cleaned_lists(text)[2])

\* ParserGUAP._read_discipline_from_file: {discipline_name: discipline_data} or None
GUAP_read_discipline_from_file(file) ==
    IF ~file.ok THEN PyNone
    ELSE Bind(GUAP_extract_discipline_name(file.text, file), LAMBDA discipline_name :
         Bind(GUAP_extract_disciplines_lists(file.text), LAMBDA lists :
             IF discipline_name = <<>> THEN PyNone
             ELSE PyDict(<<Item(discipline_name,
                               Record3(lists[1], lists[2], EmptyDict))>>)))


(***************************************************************************)
(* ParserLETI                                                              *)
(***************************************************************************)
\* "Дисциплина изучается на основе ранее освоенных дисциплин учебного плана:"
LETI_textForPreviousSubject == <<"DisciplinaIzuchaetsya:">>
\* "и обеспечивает"
LETI_endTextForPreviousSubject == <<"i", SP, "obespechivaet">>
\* "4.1.2 Содержание"
LETI_textForSubjectTopics == <<"4", ".", "1", ".", "2", SP, "Soderzhanie">>
\* "4.2 Перечень лабораторных работ"
LETI_endText == <<"4", ".", "2", SP, "PerechenLabRabot">>
\* "РАБОЧАЯ ПРОГРАММА дисциплины"
LETI_textWithNameSubject == <<"RABPROGdisc">>
\* what (?i)тема matches, and what (семинар|тема|темы) matches under re.IGNORECASE
LETI_temaWords == {"Tema", "tema"}
LETI_forbiddenWords == {"Seminar", "seminar", "Tema", "tema", "Temy", "temy"}
\* "Введение", "Заключение"
LETI_skippedTitles == {"Vvedenie", "Zaklyuchenie"}
\* the 60 of removeTableHeaders' [\s\S]{0,60}?
LETI_headerGap == 60
\* pdfSpaces of cleanPdfSpaces and of cleanPdfText (the same characters: "\xad" is U+00AD)
LETI_pdfSpaces == {NBSP, SHY, ZWSP}

\* str(n)
RECURSIVE NumStr(_)
NumStr(n) ==
    IF n < 10 THEN <<DigitSeq[n + 1]>> ELSE NumStr(n \div 10) \o <<DigitSeq[(n % 10) + 1]>>

\* s with every character of cs removed
DropChars(s, cs) == SelectSeq(s, LAMBDA c : c \notin cs)

\* s with every character of cs replaced by the character to
MapChars(s, cs, to) == [i \in 1..Len(s) |-> IF s[i] \in cs THEN to ELSE s[i]]

\* re.sub(r"[ ]+", " ", s)
CollapseSpaces(s) ==
    LET idx == [k \in 1..Len(s) |-> IF s[k] = SP /\ k > 1 /\ s[k - 1] = SP THEN 0 ELSE k]
    IN
    Bind(SelectSeq(idx, LAMBDA k : k # 0), LAMBDA sel :
        [j \in 1..Len(sel) |-> s[sel[j]]])

\* ParserLETI.normalizeSpaces
LETI_normalizeSpaces(s) ==
    Strip(Replace(Replace(CollapseWs(s), <<SHY>>, <<SP>>), <<SP, NL>>, <<>>), Whitespace)

\* ParserLETI.cleanPdfSpaces
LETI_cleanPdfSpaces(text) ==
    Strip(CollapseSpaces(MapChars(text, LETI_pdfSpaces, SP)), Whitespace)

\* re.sub(r"(?<!\n)\n(?!\n)", " ", s): a line break with no line break beside it
LETI_joinSingleBreaks(s) ==
    [i \in 1..Len(s) |->
        IF /\ s[i] = NL
           /\ (i = 1 \/ s[i - 1] # NL)
           /\ (i = Len(s) \/ s[i + 1] # NL)
        THEN SP ELSE s[i]]

\* ParserLETI.cleanPdfText
LETI_cleanPdfText(s) ==
    LET s1 == Replace(s, <<SHY, NL>>, <<>>)
        s2 == Replace(s1, <<SHY>>, <<>>)
        s3 == DropChars(s2, {CTL, SHY})
        s4 == MapChars(s3, LETI_pdfSpaces, SP)
        s5 == Replace(s4, <<"-", NL>>, <<>>)
        s6 == LETI_joinSingleBreaks(s5)
    IN  Strip(CollapseWs(s6), Whitespace)

\* the length of the match of r"\d+\s*№\s*п/п[\s\S]{0,60}?Содержание" at the start of s
LETI_tableHeaderLen(s) ==
    Bind(RunLen(s, Digits), LAMBDA n :
    Bind(n + RunLen(SliceFrom(s, n), Whitespace), LAMBDA a :
    Bind(a + 1 + RunLen(SliceFrom(s, a + 1), Whitespace), LAMBDA b :
    Bind({e \in (b + 1)..(b + 1 + LETI_headerGap) :
             e < Len(s) /\ s[e + 1] = "Soderzhanie"}, LAMBDA ends :
        IF /\ n > 0 /\ a < Len(s) /\ s[a + 1] = "No"
           /\ b < Len(s) /\ s[b + 1] = "p/p" /\ ends # {}
        THEN Min(ends) + 1 ELSE 0))))

\* ParserLETI.removeTableHeaders
RECURSIVE LETI_removeTableHeaders(_)
LETI_removeTableHeaders(text) ==
    Bind({i \in 0..(Len(text) - 1) : LETI_tableHeaderLen(SliceFrom(text, i)) > 0}, LAMBDA hits :
        IF hits = {} THEN text
        ELSE Bind(Min(hits), LAMBDA i :
                 SliceTo(text, i) \o LETI_removeTableHeaders(
                     SliceFrom(text, i + LETI_tableHeaderLen(SliceFrom(text, i))))))

\* ParserLETI.splitByNumberedTopics, from the iteration with currentNum on
RECURSIVE LETI_splitFrom(_, _)
LETI_splitFrom(text, currentNum) ==
    Bind(NumStr(currentNum) \o <<SP>>, LAMBDA currentMarker :
    LET nextMarker == NumStr(currentNum + 1) \o <<SP>>
    IN
    Bind(Find(text, currentMarker), LAMBDA found :
    Bind(found + Len(currentMarker), LAMBDA startIdx :
    Bind(Find(text, nextMarker), LAMBDA endIdx :
        IF found = -1 THEN <<>>
        ELSE IF endIdx = -1 THEN <<Strip(SliceFrom(text, startIdx), Whitespace)>>
        ELSE <<Strip(Slice(text, startIdx, endIdx), Whitespace)>>
                 \o LETI_splitFrom(text, currentNum + 1)))))

LETI_splitByNumberedTopics(text) == LETI_splitFrom(text, 1)

\* the length of the match of r"\d+(\.\d+)*\.?\s*" at the start of s, 0 if \d+ fails
RECURSIVE LETI_dotGroups(_)
LETI_dotGroups(s) ==
    IF s # <<>> /\ Head(s) = "." /\ RunLen(Tail(s), Digits) > 0
    THEN 1 + RunLen(Tail(s), Digits)
           + LETI_dotGroups(SliceFrom(s, 1 + RunLen(Tail(s), Digits)))
    ELSE 0

LETI_numberLen(s) ==
    Bind(RunLen(s, Digits), LAMBDA n :
    Bind(n + LETI_dotGroups(SliceFrom(s, n)), LAMBDA g :
    Bind(IF g < Len(s) /\ s[g + 1] = "." THEN g + 1 ELSE g, LAMBDA d :
        IF n = 0 THEN 0 ELSE d + RunLen(SliceFrom(s, d), Whitespace))))

\* re.sub(r'(?i)тема\s*\d+(\.\d+)*\.?\s*', '', s)
LETI_temaNumberLen(s) ==
    IF s = <<>> \/ Head(s) \notin LETI_temaWords THEN 0
    ELSE Bind(1 + RunLen(Tail(s), Whitespace), LAMBDA w :
         Bind(LETI_numberLen(SliceFrom(s, w)), LAMBDA n :
             IF n > 0 THEN w + n ELSE 0))

RECURSIVE LETI_subTemaNumber(_)
LETI_subTemaNumber(s) ==
    Bind({i \in 0..(Len(s) - 1) : LETI_temaNumberLen(SliceFrom(s, i)) > 0}, LAMBDA hits :
        IF hits = {} THEN s
        ELSE Bind(Min(hits), LAMBDA i :
                 SliceTo(s, i) \o LETI_subTemaNumber(
                     SliceFrom(s, i + LETI_temaNumberLen(SliceFrom(s, i))))))

\* re.sub(r'(?i)тема\s*', '', s)
RECURSIVE LETI_subTema(_)
LETI_subTema(s) ==
    Bind({i \in 1..Len(s) : s[i] \in LETI_temaWords}, LAMBDA hits :
        IF hits = {} THEN s
        ELSE Bind(Min(hits), LAMBDA i :
                 SliceTo(s, i - 1) \o LETI_subTema(LStrip(SliceFrom(s, i), Whitespace))))

\* ParserLETI.parseTopicBlock: the single-entry dict {title: sentences}
LETI_parseTopicBlock(topicBlock) ==
    Bind(RunLen(topicBlock, Whitespace), LAMBDA w :
    Bind(RunLen(SliceFrom(topicBlock, w), Digits), LAMBDA n :
    Bind(IF n = 0 THEN topicBlock
         ELSE LStrip(SliceFrom(topicBlock, w + n), Whitespace), LAMBDA b1 :
    \* (?i)^тема\s*\d+\.?\s*
    Bind(1 + RunLen(SliceFrom(b1, 1), Whitespace), LAMBDA tw :
    Bind(RunLen(SliceFrom(b1, tw), Digits), LAMBDA tn :
    LET td == IF tw + tn < Len(b1) /\ b1[tw + tn + 1] = "." THEN tw + tn + 1 ELSE tw + tn
        b2 == IF b1 # <<>> /\ Head(b1) \in LETI_temaWords /\ tn > 0
              THEN SliceFrom(b1, td) ELSE b1
    IN
    Bind(Strip(b2, Whitespace), LAMBDA block :
    Bind(Find(block, <<".", SP>>), LAMBDA firstDotIdx :
    LET title == Strip(SliceTo(block, firstDotIdx), Whitespace)
    IN
    Bind(Strip(SliceFrom(block, firstDotIdx + 1), Whitespace), LAMBDA contentText :
    LET pieces == [i \in 1..Len(Split(contentText, <<".", SP>>)) |->
                      Strip(Split(contentText, <<".", SP>>)[i], Whitespace)]
        sentences == SelectSeq(pieces, LAMBDA x : x # <<>>)
    IN  IF firstDotIdx = -1
        THEN PyDict(<<Item(block, PyList(<<>>))>>)
        ELSE PyDict(<<Item(title, PyList(sentences))>>)))))))))

\* re.sub(r"\([^)]*\)", "", line)
RECURSIVE LETI_subParens(_)
LETI_subParens(s) ==
    Bind({i \in 1..Len(s) : s[i] = "(" /\ FindFrom(s, <<")">>, i) # -1}, LAMBDA hits :
        IF hits = {} THEN s
        ELSE Bind(Min(hits), LAMBDA i :
                 SliceTo(s, i - 1) \o LETI_subParens(
                     SliceFrom(s, FindFrom(s, <<")">>, i) + 1))))

\* the line of ParserLETI.cleanThemeItems' inner loop after cleaning, <<>> when it is skipped
LETI_cleanLine(rawLine) ==
    Bind(LETI_subParens(DropChars(rawLine, LETI_forbiddenWords)), LAMBDA l1 :
    Bind(Strip(l1, Whitespace), LAMBDA st :
    \* ^\s*\d+[\.\)]*\s*
    Bind(RunLen(l1, Whitespace), LAMBDA w :
    Bind(RunLen(SliceFrom(l1, w), Digits), LAMBDA n :
    LET p == RunLen(SliceFrom(l1, w + n), {".", ")"})
        l2 == IF n = 0 THEN l1 ELSE LStrip(SliceFrom(l1, w + n + p), Whitespace)
        l3 == DropChars(l2, {":", ";", "+"})
    IN
    Bind(Strip(LETI_normalizeSpaces(l3), Whitespace), LAMBDA l4 :
        IF Len(st) < 3 THEN <<>>
        ELSE IF \A i \in 1..Len(st) : st[i] \in Digits \cup {"."} THEN <<>>
        ELSE IF Len(l4) < 3 THEN <<>>
        ELSE l4)))))

\* ParserLETI.cleanThemeItems for one theme (a single-entry dict)
LETI_cleanTheme(theme) ==
    Bind(theme.items[1].v.items, LAMBDA content :
    LET cleaned == [i \in 1..Len(content) |-> LETI_cleanLine(content[i])]
        kept == SelectSeq(cleaned, LAMBDA x : x # <<>>)
    IN  PyDict(<<Item(theme.items[1].k, PyList(kept))>>))

LETI_cleanThemeItems(themes) == [i \in 1..Len(themes) |-> LETI_cleanTheme(themes[i])]

\* lines 79-84 of readPdf: the discipline name, "" when a marker is missing
LETI_subjectName(fullText) ==
    Bind(Find(fullText, LETI_textWithNameSubject), LAMBDA found :
    Bind(found + Len(LETI_textWithNameSubject) + 2, LAMBDA startIdx :
    Bind(FindFrom(fullText, <<RQ>>, startIdx), LAMBDA endIdx :
        IF found # -1 /\ endIdx # -1
        THEN LETI_normalizeSpaces(Slice(fullText, startIdx, endIdx))
        ELSE <<>>)))

\* str.capitalize(): first character upper-cased, the rest lower-cased
Capitalize(s) ==
    [i \in 1..Len(s) |-> IF i = 1 THEN Upper(s[i]) ELSE Lower(s[i])]

\* re.findall(r'«(.*?)»', block): '.' does not match a line break
LETI_quotedAt(block, i) ==
    Bind(FindFrom(block, <<RQ>>, i), LAMBDA close :
        /\ block[i] = LQ
        /\ close # -1
        /\ ~Contains(Slice(block, i, close), <<NL>>))

RECURSIVE LETI_findQuoted(_)
LETI_findQuoted(block) ==
    Bind({i \in 1..Len(block) : LETI_quotedAt(block, i)}, LAMBDA hits :
        IF hits = {} THEN <<>>
        ELSE Bind(Min(hits), LAMBDA i :
             Bind(FindFrom(block, <<RQ>>, i), LAMBDA close :
                 <<Slice(block, i, close)>> \o LETI_findQuoted(SliceFrom(block, close + 1)))))

\* lines 87-100 of readPdf
LETI_previousSubjects(fullText) ==
    Bind(Find(fullText, LETI_textForPreviousSubject), LAMBDA found :
    Bind(found + Len(LETI_textForPreviousSubject), LAMBDA startIdx :
    Bind(FindFrom(fullText, LETI_endTextForPreviousSubject, startIdx), LAMBDA e :
    LET endIdx == IF e = -1 THEN Len(fullText) ELSE e
        block == LETI_normalizeSpaces(Slice(fullText, startIdx, endIdx))
        quoted == LETI_findQuoted(block)
    IN  IF found = -1 THEN <<>>
        ELSE [i \in 1..Len(quoted) |-> LETI_normalizeSpaces(quoted[i])])))

\* lines 106-110 of readPdf: the section stripped, with its "Тема N" words removed
LETI_topicsOf(section) == LETI_subTema(LETI_subTemaNumber(Strip(section, Whitespace)))

\* lines 102-110 of readPdf: the topic section, "" when its marker is missing
LETI_textTopics(fullText) ==
    Bind(Find(fullText, LETI_textForSubjectTopics), LAMBDA found :
    LET startIdx == found + Len(LETI_textForSubjectTopics)
        endIdx == Find(fullText, LETI_endText)
    IN  IF found = -1 THEN <<>>
        ELSE LETI_topicsOf(Slice(fullText, startIdx, endIdx)))

LETI_isSkipped(theme) ==
    Bind(theme.items[1].k, LAMBDA title :
        title # <<>> /\ title[1] \in LETI_skippedTitles)

\* lines 113-114 of readPdf: themes, the topic blocks
LETI_themesOf(textTopics) ==
    Bind(LETI_splitByNumberedTopics(LETI_removeTableHeaders(textTopics)), LAMBDA blocks :
        [i \in 1..Len(blocks) |-> LETI_cleanPdfSpaces(blocks[i])])

LETI_themes(fullText) == LETI_themesOf(LETI_textTopics(fullText))

\* lines 117-124 of readPdf: the blocks parsed, without those whose title is skipped
LETI_parsedThemes(themes) ==
    LET parsed == [i \in 1..Len(themes) |-> LETI_parseTopicBlock(themes[i])]
    IN  SelectSeq(parsed, LAMBDA t : ~LETI_isSkipped(t))

\* ParserLETI.readPdf: None, or the single-entry dict {subjectName: record}
LETI_readPdf(file) ==
    Bind(LETI_cleanPdfText(file.text), LAMBDA fullText :
    LET subjectName == Capitalize(LETI_subjectName(fullText))
    IN
    Bind(LETI_themes(fullText), LAMBDA themes :
        IF themes = <<>> THEN PyNone
        ELSE PyDict(<<Item(subjectName,
                           Record2(LETI_previousSubjects(fullText),
                                   PyList(LETI_cleanThemeItems(
                                              LETI_parsedThemes(themes)))))>>)))


(***************************************************************************)
(* The files a direction directory may hold, per parser: working           *)
(* programmes assembled from the sections the reader looks for, a file     *)
(* that does not open, and entries the loader must pass over.              *)
(***************************************************************************)
pdf == <<"p", "d", "f">>
Unreadable == File(<<"b", "a", "d">>, pdf, FALSE, <<>>, <<>>)
TextFile == File(<<"a", "b", "_", "c", "d">>, <<"t", "t">>, TRUE, <<"A", "b", "c", "d">>, <<>>)

MTUCI_title(name) == <<"RabProgDisc", SP, SP, NL>> \o name \o <<SP, NL, "NapravleniePodgotovki", SP, NL>>
MTUCI_prev == <<"DlyaOsvoeniya", SP, "B", "c", "d", ",", SP, "b", "c", "d", ",", SP, "C", "d", "a", ".", SP, NL>>
MTUCI_units ==
    <<"Indik2Kompetenciy", SP, SP, NL>> \o MTUCI_sectionHeader \o <<SP, "T", "a", "b", SP>>
        \o MTUCI_themeHeading \o <<SP, "D", "a", "b", SP, "Lekciya", SP>> \o MTUCI_themeHeading
        \o <<SP>> \o MTUCI_sectionHeader \o <<SP, "C", "a", "b", SP, NL, "5UchebnoMetod", SP, NL>>
MTUCI_docs ==
    { File(<<"a">>, pdf, TRUE, MTUCI_title(<<"A", "b", "c">>) \o MTUCI_prev \o MTUCI_units, <<>>),
      File(<<"b">>, pdf, TRUE, MTUCI_title(<<"A", "b", "c">>), <<>>),
      File(<<"c">>, pdf, TRUE, MTUCI_title(<<"B", SP, SP, "c", "d">>) \o MTUCI_units, <<>>),
      File(<<"d">>, pdf, TRUE, MTUCI_prev \o MTUCI_units, <<>>),
      Unreadable,
      SubDir(<<"a", "b">>) }

SpbPU_title(name) == <<"RabProgDiscModulya", SP, NL, LQ>> \o name \o <<RQ, SP, NL>>
SpbPU_prev ==
    <<"IzuchenieBaziruetsya", SP, NL, "A", "b", "c", SP, NL, "a", "b", "c", SP, NL, "D", "d", SP, NL,
      BUL, SP, NL>>
SpbPU_unitsBlock ==
    <<"42SoderzhanieRazdelov", SP, NL, "RazdelDiscSoderzhanie", SP, NL,
      "1", ".", SP, "T", "a", "b", SP, NL, "B", "c", "d", ".", SP, "C", "d", "a", SP, NL,
      "2", ".", SP, "D", "a", "b", SP, NL, "3", ".", SP, "C", "a", "b", SP, NL, "A", "b", "d", SP, NL,
      "5ObrazTehnologii", SP, NL>>
SpbPU_bold == << <<"1", ".", SP, "T", "a", "b">>, <<"2", ".", SP, "D", "a", "b">>,
                 <<"3", ".", SP, "C", "a", "b">> >>
SpbPU_docs ==
    { File(<<"a">>, pdf, TRUE, SpbPU_title(<<"A", "b", "c">>) \o SpbPU_prev \o SpbPU_unitsBlock, SpbPU_bold),
      File(<<"b">>, pdf, TRUE, SpbPU_title(<<"A", "b", "c">>) \o SpbPU_prev, <<>>),
      File(<<"c">>, pdf, TRUE, SpbPU_title(<<"B", "c", "d">>) \o SpbPU_unitsBlock, SpbPU_bold),
      File(<<"d">>, pdf, TRUE, SpbPU_prev \o SpbPU_unitsBlock, SpbPU_bold),
      Unreadable,
      SubDir(<<"a", "b">>) }

MPU_title(name) == <<"RABPROGDISC", NL>> \o name \o <<NL, "NapravleniePodgotovki", SP, "a", NL>>
MPU_next ==
    <<"DisciplinamiOPOP", SP, "a", ":", SP, NL, BUL, SP, "A", "b", "c", ";", NL, "-", SP, "a", "b", "c", NL,
      "3", ".", SP, "a", "b", NL>>
MPU_content ==
    <<"3", ".", "3", SP, "Soderzhanie", SP, "discipliny", NL,
      "Razdel", SP, "1", ".", SP, "A", "b", "c", "d", "a", "b", ".", SP, "B", "c", "d", "a", "b", "c", ".", NL,
      "Tema", SP, "2", SP, "C", "d", "a", "b", "c", "d", ".", NL, "4", ".", SP, "UchebnoMetod", NL>>
MPU_docs ==
    { File(<<"B", "1", "_", "a", "b">>, pdf, TRUE,
           MPU_title(<<LQ, "A", "b", "c", RQ>>) \o MPU_next \o MPU_content, <<>>),
      File(<<"b">>, <<"P", "D", "F">>, TRUE, MPU_title(<<LQ, "A", "b", "c", RQ>>), <<>>),
      File(<<"B", "1", "_", "c", "d">>, pdf, TRUE, MPU_title(<<>>) \o MPU_content, <<>>),
      File(<<"d">>, pdf, TRUE, MPU_next \o MPU_content, <<>>),
      Unreadable,
      TextFile }

GUAP_title(name) == <<"RABPROGDISC", NL, LQ>> \o name \o <<RQ, NL>>
GUAP_place ==
    <<"2", ".", SP, "MestoDisciplinyVStruktureOP", NL,
      "bazirovatsyaNaZnaniyah", SP, "priIzuchenii", SP, "sleduyushchihDisciplin:", SP,
      LQ, "A", "b", "c", "d", RQ, ",", SP, LQ, "B", "c", "d", "a", RQ, ",", SP, LQ, "a", "b", "c", "d", RQ, NL,
      "ispolzovatsyaPriIzucheniiDrugihDisciplin:", SP,
      "a", "b", "c", "d", ",", SP, "D", "d", "d", "d", NL, NL, "3", ".", SP, "A", "b", NL>>
GUAP_placePrevOnly ==
    <<"2", ".", SP, "MestoDisciplinyVStruktureOP", NL,
      "bazirovatsyaNaZnaniyah", SP, "priIzuchenii", SP, "sleduyushchihDisciplin:", SP,
      LQ, "C", "d", "a", "b", RQ, NL, NL, "3", ".", SP, "A", "b", NL>>
GUAP_docs ==
    { File(<<"a">>, pdf, TRUE, GUAP_title(<<"A", "b", "c", "d">>) \o GUAP_place, <<>>),
      File(<<"b">>, pdf, TRUE, GUAP_title(<<"A", "b", "c", "d">>) \o GUAP_placePrevOnly, <<>>),
      File(<<"c">>, pdf, TRUE, GUAP_title(<<"B", "c", "d", "a">>), <<>>),
      File(<<"r", "p", "d", "_", "a", "b", "_", "c", "d", "_", "1", "2">>, pdf, TRUE, GUAP_place, <<>>),
      Unreadable,
      TextFile }

LETI_title(name) == <<"RABPROGdisc", SP, LQ>> \o name \o <<RQ, NL>>
LETI_prev ==
    <<"DisciplinaIzuchaetsya:", SP, LQ, "A", "b", "c", RQ, ",", SP, LQ, "a", "b", SHY, NL, "c", RQ, SP,
      "i", SP, "obespechivaet", SP, LQ, "c", "c", RQ, NL>>
LETI_topicsBlock ==
    <<"4", ".", "1", ".", "2", SP, "Soderzhanie", SP, "1", SP, "Vvedenie", ".", SP, "A", "b", "c", SP,
      "2", NBSP, "Tema", SP, "2", ".", SP, "B", "b", "b", ".", SP, "1", ".", SP, "a", "b", "c", SP,
      "(", "a", "b", ")", SP, "d", ";", SP, "3", SP, "D", "d", "d", NL,
      "4", ".", "2", SP, "PerechenLabRabot", NL>>
LETI_docs ==
    { File(<<"a">>, pdf, TRUE, LETI_title(<<"a", "b", SP, SP, "c", "D">>) \o LETI_prev \o LETI_topicsBlock, <<>>),
      File(<<"b">>, pdf, TRUE, LETI_title(<<"A", "b", "c", "d">>) \o LETI_prev, <<>>),
      File(<<"c">>, pdf, TRUE, LETI_title(<<"a", "b", SP, SP, "c", "D">>) \o LETI_topicsBlock, <<>>),
      File(<<"d">>, pdf, TRUE, LETI_prev \o LETI_topicsBlock, <<>>),
      Unreadable,
      TextFile }


\* the readers' results on these files, computed once
MTUCI_results == [f \in MTUCI_docs |-> MTUCI_readTextFromFileDiscipline(f)]
SpbPU_results == [f \in SpbPU_docs |-> SpbPU_readTextFromFileDiscipline(f)]
MPU_results == [f \in MPU_docs |-> MPU_read_discipline_file(f)]
GUAP_results == [f \in GUAP_docs |-> GUAP_read_discipline_from_file(f)]
\* fitz.open raises on a file that does not open; start() catches it and appends nothing
LETI_results == [f \in LETI_docs |-> IF f.ok THEN LETI_readPdf(f) ELSE PyNone]

(***************************************************************************)
(* The direction loaders.  files[d] is the listing of the directory of     *)
(* direction d under the university directory (NoDir: no such directory),  *)
(* in os.listdir order; the file system does not change while a parser     *)
(* object lives.  writable is whether the JSON file can be written.        *)
(***************************************************************************)
Dir(listing) == [exists |-> TRUE, listing |-> listing]
NoDir == [exists |-> FALSE, listing |-> <<>>]

\* os.path.exists(directory) and os.path.isdir(directory)
IsDir(d) == files[d].exists

\* os.listdir of the university directory, kept to its directories
DirOrder == <<"d1", "d2">>

\* every direction of ds is in the collection (and there is one)
Present(ds) == ds # {} /\ \A d \in ds : d \in Keys(directionsOfStudy)

\* a call that loads the directions ds, and a call that loads none
Load(op, arg, ds) == [op |-> op, arg |-> arg, present |-> Present(ds)]
Call(op) == [op |-> op, arg |-> "", present |-> FALSE]

\* the {discipline: arguments} entries a list-building loader appends for one reader result
Entry(result) ==
    IF Truthy(result[1]) /\ Truthy(result[2])
    THEN <<PyDict(<<Item(result[1].val, result[2])>>)>>
    ELSE <<>>

\* ParserMTUCI.loadDirectionOfStudy, lines 30-36: the list built from the directory
MTUCI_listOfDisciplines(listing) ==
    Concat([i \in 1..Len(listing) |->
               IF listing[i].isfile
               THEN Entry(MTUCI_results[listing[i]])
               ELSE <<>>])

\* ParserMTUCI.loadDirectionOfStudy
MTUCI_loadDirectionOfStudy(dirOfDirection) ==
    /\ parser = "MTUCI"
    /\ call' = Load("loadDirectionOfStudy", dirOfDirection, {dirOfDirection})
    /\ IF HasKey(directionsOfStudy, dirOfDirection)
       THEN ret' = PyBool(TRUE) /\ UNCHANGED directionsOfStudy
       ELSE IF ~IsDir(dirOfDirection)
       THEN ret' = PyBool(FALSE) /\ UNCHANGED directionsOfStudy
       ELSE /\ directionsOfStudy' =
                   DictSet(directionsOfStudy, dirOfDirection,
                           PyList(MTUCI_listOfDisciplines(files[dirOfDirection].listing)))
            /\ ret' = PyBool(TRUE)
    /\ UNCHANGED <<parser, files, dataBase>>

\* ParserSpbPU.loadDirectionOfStudy, lines 28-34
SpbPU_listOfDisciplines(listing) ==
    Concat([i \in 1..Len(listing) |->
               IF listing[i].isfile
               THEN Entry(SpbPU_results[listing[i]])
               ELSE <<>>])

\* ParserSpbPU.loadDirectionOfStudy
SpbPU_loadDirectionOfStudy(dirOfDirection) ==
    /\ parser = "SpbPU"
    /\ call' = Load("loadDirectionOfStudy", dirOfDirection, {dirOfDirection})
    /\ IF HasKey(directionsOfStudy, dirOfDirection)
       THEN ret' = PyBool(TRUE) /\ UNCHANGED directionsOfStudy
       ELSE IF ~IsDir(dirOfDirection)
       THEN ret' = PyBool(FALSE) /\ UNCHANGED directionsOfStudy
       ELSE /\ directionsOfStudy' =
                   DictSet(directionsOfStudy, dirOfDirection,
                           PyList(SpbPU_listOfDisciplines(files[dirOfDirection].listing)))
            /\ ret' = PyBool(TRUE)
    /\ UNCHANGED <<parser, files, dataBase>>

\* ParserMPU.loadDirectionOfStudy, lines 43-51: only names ending in .pdf are read
MPU_listOfDisciplines(listing) ==
    Concat([i \in 1..Len(listing) |->
               IF IsPdf(listing[i])
               THEN Entry(MPU_results[listing[i]])
               ELSE <<>>])

\* ParserMPU.loadDirectionOfStudy
MPU_loadDirectionOfStudy(dirOfDirection) ==
    /\ parser = "MPU"
    /\ call' = Load("loadDirectionOfStudy", dirOfDirection, {dirOfDirection})
    /\ IF HasKey(directionsOfStudy, dirOfDirection)
       THEN ret' = PyBool(TRUE) /\ UNCHANGED directionsOfStudy
       ELSE IF ~IsDir(dirOfDirection)
       THEN ret' = PyBool(FALSE) /\ UNCHANGED directionsOfStudy
       ELSE /\ directionsOfStudy' =
                   DictSet(directionsOfStudy, dirOfDirection,
                           PyList(MPU_listOfDisciplines(files[dirOfDirection].listing)))
            /\ ret' = PyBool(TRUE)
    /\ UNCHANGED <<parser, files, dataBase>>

\* ParserGUAP._load_single_direction, lines 126-127: the .pdf files of the directory
GUAP_pdf_files(listing) == SelectSeq(listing, LAMBDA f : IsPdf(f) /\ f.isfile)

\* the loop of lines 136-140 if a document without a record ended it (a break in the
\* place of the skip)
RECURSIVE GUAP_disciplines_dictAborting(_, _)
GUAP_disciplines_dictAborting(pdf_files, disciplines_dict) ==
    IF pdf_files = <<>> THEN disciplines_dict
    ELSE Bind(GUAP_results[Head(pdf_files)], LAMBDA discipline_data :
             IF Truthy(discipline_data)
             THEN GUAP_disciplines_dictAborting(Tail(pdf_files),
                      DictUpdate(disciplines_dict, discipline_data))
             ELSE disciplines_dict)

\* ParserGUAP._load_single_direction, lines 135-140: the dict the documents are merged into
RECURSIVE GUAP_disciplines_dict(_, _)
GUAP_disciplines_dict(pdf_files, disciplines_dict) ==
    IF pdf_files = <<>> THEN disciplines_dict
    ELSE Bind(GUAP_results[Head(pdf_files)], LAMBDA discipline_data :
             GUAP_disciplines_dict(Tail(pdf_files),
                 IF Truthy(discipline_data)
                 THEN DictUpdate(disciplines_dict, discipline_data)
                 ELSE disciplines_dict))

\* ParserGUAP._load_single_direction on an existing directory: <<collection, result>>
GUAP_load_single_direction(directions_of_study, dir_of_direction) ==
    Bind(GUAP_pdf_files(files[dir_of_direction].listing), LAMBDA pdf_files :
    Bind(GUAP_disciplines_dict(pdf_files, EmptyDict), LAMBDA disciplines_dict :
        IF pdf_files = <<>> THEN <<directions_of_study, FALSE>>
        ELSE IF Truthy(disciplines_dict)
        THEN <<DictSet(directions_of_study, dir_of_direction, disciplines_dict), TRUE>>
        ELSE <<directions_of_study, FALSE>>))

\* ParserGUAP._load_single_direction: os.listdir of a missing directory raises
\* FileNotFoundError, which the except PermissionError clause does not catch
GUAP_LoadSingleDirection(dir_of_direction) ==
    /\ parser = "GUAP"
    /\ call' = Load("_load_single_direction", dir_of_direction, {dir_of_direction})
    /\ IF ~IsDir(dir_of_direction)
       THEN ret' = Raised("FileNotFoundError") /\ UNCHANGED directionsOfStudy
       ELSE Bind(GUAP_load_single_direction(directionsOfStudy, dir_of_direction), LAMBDA out :
                directionsOfStudy' = out[1] /\ ret' = PyBool(out[2]))
    /\ UNCHANGED <<parser, files, dataBase>>

\* ParserGUAP.load_all_directions, lines 99-101: the loop over the items that are directories
RECURSIVE GUAP_loadItems(_, _)
GUAP_loadItems(items, directions_of_study) ==
    IF items = <<>> THEN directions_of_study
    ELSE GUAP_loadItems(Tail(items),
             IF IsDir(Head(items))
             THEN GUAP_load_single_direction(directions_of_study, Head(items))[1]
             ELSE directions_of_study)

\* ParserGUAP.load_all_directions: returns the collection
GUAP_load_all_directions ==
    /\ parser = "GUAP"
    /\ call' = Load("load_all_directions", "", {d \in Directions : IsDir(d)})
    /\ directionsOfStudy' = GUAP_loadItems(DirOrder, directionsOfStudy)
    /\ ret' = directionsOfStudy'
    /\ UNCHANGED <<parser, files, dataBase>>

\* ParserLETI.start, lines 156-172 for one directory: the list of readPdf results
LETI_directoryList(listing) ==
    Bind(SelectSeq(listing, LAMBDA f : IsPdf(f) /\ f.isfile), LAMBDA pdfFiles :
    LET pdfData == [i \in 1..Len(pdfFiles) |-> LETI_results[pdfFiles[i]]]
    IN  SelectSeq(pdfData, Truthy))

\* the loop of start without the reset of line 148 (setdefault in its place): the
\* results are appended to the list the direction already has
RECURSIVE LETI_startLoopKeeping(_, _)
LETI_startLoopKeeping(directories, dos) ==
    IF directories = <<>> THEN dos
    ELSE Bind(Head(directories), LAMBDA directoryName :
         LET old == IF HasKey(dos, directoryName) THEN Get(dos, directoryName).items
                    ELSE <<>>
         IN  LETI_startLoopKeeping(Tail(directories),
                 DictSet(dos, directoryName,
                         PyList(old \o LETI_directoryList(files[directoryName].listing)))))

\* ParserLETI.start, lines 146-172: the loop over getDirectories()
RECURSIVE LETI_startLoop(_, _)
LETI_startLoop(directories, dos) ==
    IF directories = <<>> THEN dos
    ELSE LETI_startLoop(Tail(directories),
             DictSet(dos, Head(directories),
                     PyList(LETI_directoryList(files[Head(directories)].listing))))

\* ParserLETI.getDirectories
LETI_getDirectories == SelectSeq(DirOrder, IsDir)

\* ParserLETI.start: the JSON file is written outside any try
LETI_start(writable) ==
    /\ parser = "LETI"
    /\ call' = Load("start", "", {d \in Directions : IsDir(d)})
    /\ directionsOfStudy' = LETI_startLoop(LETI_getDirectories, directionsOfStudy)
    /\ ret' = IF writable THEN PyNone ELSE Raised("OSError")
    /\ UNCHANGED <<parser, files, dataBase>>

\* ParserMTUCI.saveAsJson
MTUCI_saveAsJson(writable) ==
    /\ parser = "MTUCI"
    /\ call' = Call("saveAsJson")
    /\ ret' = PyBool(writable)
    /\ UNCHANGED <<parser, files, directionsOfStudy, dataBase>>

\* ParserSpbPU.saveAsJson
SpbPU_saveAsJson(writable) ==
    /\ parser = "SpbPU"
    /\ call' = Call("saveAsJson")
    /\ ret' = PyBool(writable)
    /\ UNCHANGED <<parser, files, directionsOfStudy, dataBase>>

\* ParserMPU.saveAsJson
MPU_saveAsJson(writable) ==
    /\ parser = "MPU"
    /\ call' = Call("saveAsJson")
    /\ ret' = PyBool(writable)
    /\ UNCHANGED <<parser, files, directionsOfStudy, dataBase>>

\* ParserGUAP.save_as_json
GUAP_save_as_json(writable) ==
    /\ parser = "GUAP"
    /\ call' = Call("save_as_json")
    /\ ret' = PyBool(writable)
    /\ UNCHANGED <<parser, files, directionsOfStudy, dataBase>>


(***************************************************************************)
(* The state machine: one parser object over one university directory      *)
(***************************************************************************)
Parsers == {"MTUCI", "SpbPU", "MPU", "GUAP", "LETI"}

Docs(p) ==
    CASE p = "MTUCI" -> MTUCI_docs
      [] p = "SpbPU" -> SpbPU_docs
      [] p = "MPU" -> MPU_docs
      [] p = "GUAP" -> GUAP_docs
      [] p = "LETI" -> LETI_docs

\* the listings of at most n entries of S: the names in a directory are distinct
Listings(S, n) ==
    UNION {{l \in [1..k -> S] : \A i, j \in 1..k : l[i].stem = l[j].stem => i = j} : k \in 0..n}

RECURSIVE Total(_, _)
Total(f, ds) ==
    IF ds = {} THEN 0
    ELSE Bind(CHOOSE x \in ds : TRUE, LAMBDA d :
             Len(f[d].listing) + Total(f, ds \ {d}))

\* every university directory that holds at most MaxFiles entries
FileSystems(p) ==
    {f \in [Directions -> {NoDir} \cup {Dir(l) : l \in Listings(Docs(p), MaxFiles)}] :
        Total(f, Directions) <= MaxFiles}

\* __init__: an empty collection
Init ==
    /\ parser \in Parsers
    /\ files \in FileSystems(parser)
    /\ directionsOfStudy = EmptyDict
    /\ call = Call("__init__")
    /\ ret = PyNone
    /\ NoDataBase

Next ==
    \/ \E d \in Directions : MTUCI_loadDirectionOfStudy(d)
    \/ \E d \in Directions : SpbPU_loadDirectionOfStudy(d)
    \/ \E d \in Directions : MPU_loadDirectionOfStudy(d)
    \/ \E d \in Directions : GUAP_LoadSingleDirection(d)
    \/ GUAP_load_all_directions
    \/ \E writable \in BOOLEAN : LETI_start(writable)
    \/ \E writable \in BOOLEAN : MTUCI_saveAsJson(writable)
    \/ \E writable \in BOOLEAN : SpbPU_saveAsJson(writable)
    \/ \E writable \in BOOLEAN : MPU_saveAsJson(writable)
    \/ \E writable \in BOOLEAN : GUAP_save_as_json(writable)

Spec == Init /\ [][Next]_vars

(***************************************************************************)
(* What can be read off the collection and off the documents behind it     *)
(***************************************************************************)
\* the (name, record) items stored for one direction: the items of a mapping, or the
\* items of the single-entry mappings of a list
Entries(v) ==
    IF v.kind = "dict" THEN v.items
    ELSE IF v.kind = "list" THEN Concat([i \in 1..Len(v.items) |-> v.items[i].items])
    ELSE <<>>

\* the directions of the collection, each with the listing of its directory
Loaded ==
    {[direction |-> it.k, stored |-> Entries(it.v), listing |-> files[it.k].listing] :
        it \in Range(directionsOfStudy.items)}

\* every record of the collection
Stored == UNION {{e.v : e \in Range(l.stored)} : l \in Loaded}

\* the list a record holds in a field, empty if it has no such list
ListField(rec, field) ==
    IF rec.kind = "dict" /\ HasKey(rec, field) /\ Get(rec, field).kind = "list"
    THEN Get(rec, field).items
    ELSE <<>>

\* the (title, contents) items of a record's topics, whatever container holds them
Topics(rec) == IF HasKey(rec, "topics") THEN Entries(Get(rec, "topics")) ELSE <<>>

\* the entries of a listing the parser's loader hands to its reader
ReadBy(f) ==
    CASE parser \in {"MTUCI", "SpbPU"} -> f.isfile
      [] parser = "MPU" -> IsPdf(f)
      [] OTHER -> IsPdf(f) /\ f.isfile

\* what the parser's loader gets from its reader for file f: the (name, record) item,
\* or nothing for a rejected document
ReadEntries(f) ==
    CASE parser = "MTUCI" -> Entries(PyList(Entry(MTUCI_results[f])))
      [] parser = "SpbPU" -> Entries(PyList(Entry(SpbPU_results[f])))
      [] parser = "MPU" -> Entries(PyList(Entry(MPU_results[f])))
      [] parser = "GUAP" -> Entries(GUAP_results[f])
      [] parser = "LETI" -> Entries(LETI_results[f])

\* the documents of a loaded direction that its loader reads
Documents(l) == {f \in Range(l.listing) : ReadBy(f)}

\* the text the parser searches for its markers
FullText(f) == IF parser = "LETI" THEN LETI_cleanPdfText(f.text) ELSE f.text

AnyIn(text, markers) == \E i \in 1..Len(markers) : Contains(text, markers[i])

\* one of the parser's title markers occurs in the text
TitleMarkerIn(text) ==
    CASE parser = "MTUCI" -> AnyIn(text, MTUCI_titleOfDocument)
      [] parser = "SpbPU" -> Contains(text, SpbPU_titleOfDocument)
      [] parser = "MPU" -> Contains(text, MPU_titleOfDocument)
      [] parser = "GUAP" -> AnyIn(text, << <<GUAP_titleWord>>, <<GUAP_disciplinaWord>> >>)
      [] parser = "LETI" -> Contains(text, LETI_textWithNameSubject)

\* the marker of the parser's prerequisite, follow-on and topic section occurs in the
\* text (FALSE where the parser has no such section)
PreviousMarkerIn(text) ==
    CASE parser = "MTUCI" -> AnyIn(text, MTUCI_textForPreviousDisciplines)
      [] parser = "SpbPU" -> Contains(text, SpbPU_textForPreviousDisciplines)
      [] parser = "MPU" -> FALSE
      [] parser = "GUAP" -> Contains(text, GUAP_sleduyushchih)
      [] parser = "LETI" -> Contains(text, LETI_textForPreviousSubject)

NextMarkerIn(text) ==
    CASE parser = "MPU" -> AnyIn(text, MPU_nextDisciplinesMarkers)
      [] parser = "GUAP" -> AnyIn(text, <<GUAP_ispolzovatsya, GUAP_ispolzuyutsya>>)
      [] OTHER -> FALSE

TopicMarkerIn(text) ==
    CASE parser = "MTUCI" -> AnyIn(text, MTUCI_textForEducationalUnits)
      [] parser = "SpbPU" -> Contains(text, SpbPU_textForEducationalUnits)
      [] parser = "MPU" -> MPU_contentPos(text) # -1
      [] parser = "GUAP" -> FALSE
      [] parser = "LETI" -> Contains(text, LETI_textForSubjectTopics)

\* a name as a case-insensitive, whitespace-insensitive comparison sees it
Normalized(name) == LowerStr(SelectSeq(name, LAMBDA c : c \notin Whitespace))

NoDuplicates(names) ==
    \A i, j \in 1..Len(names) : Normalized(names[i]) = Normalized(names[j]) => i = j

\* the last call wrote the collection to its JSON file
Persisted ==
    /\ call.op \in {"saveAsJson", "save_as_json", "start"}
    /\ ret.kind # "raise"
    /\ ret.kind = "bool" => ret.val

\* {"previousDisciplines": list, "nextDisciplines": list, "topics": {title: list}}
IsRecord(rec) ==
    /\ rec.kind = "dict"
    /\ Len(rec.items) = 3
    /\ Keys(rec) = {"previousDisciplines", "nextDisciplines", "topics"}
    /\ Get(rec, "previousDisciplines").kind = "list"
    /\ Get(rec, "nextDisciplines").kind = "list"
    /\ Get(rec, "topics").kind = "dict"
    /\ \A t \in Range(Get(rec, "topics").items) : t.v.kind = "list"

\* the titles the parser's topic pattern recognises in the document (MPU: the first
\* sentence of each match that has one; LETI: the titles of the parsed blocks that are
\* not skipped by name)
RecognisedTitles(f) ==
    CASE parser = "MPU" ->
             IF MPU_contentPos(f.text) = -1 THEN {}
             ELSE {m[1] : m \in Range(MPU_topicMatches(MPU_content_text(f.text), 0)) \ {<<>>}}
      [] parser = "LETI" ->
             {t.items[1].k :
                 t \in Range(LETI_parsedThemes(LETI_themes(LETI_cleanPdfText(f.text))))}
      [] OTHER -> {}

(***************************************************************************)
(* The properties                                                          *)
(***************************************************************************)
\* C1: a load of directions that are all in the collection already leaves the
\* collection exactly as it was, and a loader that reports a result reports success:
\* True from loadDirectionOfStudy and _load_single_direction, the collection from
\* load_all_directions (start returns nothing of its own).
C1_ReloadIsNoOp ==
    [][call'.present =>
          /\ directionsOfStudy' = directionsOfStudy
          /\ call'.op \in {"loadDirectionOfStudy", "_load_single_direction"}
                 => ret' = PyBool(TRUE)
          /\ call'.op = "load_all_directions" => ret' = directionsOfStudy]_vars

\* a second load has just been made of directions that hold records
C1_Reloaded ==
    /\ call.present
    /\ \E l \in Loaded : l.direction \in {call.arg} \cup {d \in Directions : call.arg = ""}
                            /\ l.stored # <<>>

\* C2: every direction of the collection holds at least one discipline record.
C2_NoEmptyDirection == \A l \in Loaded : l.stored # <<>>

\* C3: a document of a loaded direction with none of the title markers in its text is
\* rejected: its reader hands the loader no record for it, under any name.
C3_NoTitleRejected ==
    \A l \in Loaded : \A f \in Documents(l) :
        ~TitleMarkerIn(FullText(f)) => ReadEntries(f) = <<>>

\* C4: a loaded direction holds as many records as it has documents that were not
\* rejected.
C4_RecordPerDocument ==
    \A l \in Loaded :
        Len(l.stored) = Cardinality({f \in Documents(l) : ReadEntries(f) # <<>>})

\* C5: a readable document of a loaded direction whose title marker is found is
\* accepted, and each of its three fields whose section marker is absent is empty.
C5_MissingSectionEmpty ==
    \A l \in Loaded : \A f \in Documents(l) :
        f.ok /\ TitleMarkerIn(FullText(f)) =>
            /\ ReadEntries(f) # <<>>
            /\ \A e \in Range(ReadEntries(f)) :
                  /\ ~PreviousMarkerIn(FullText(f))
                         => ListField(e.v, "previousDisciplines") = <<>>
                  /\ ~NextMarkerIn(FullText(f))
                         => ListField(e.v, "nextDisciplines") = <<>>
                  /\ ~TopicMarkerIn(FullText(f)) => Topics(e.v) = <<>>

\* C6: no name is in both previousDisciplines and nextDisciplines of a stored record;
\* and where the two lists come from the two cleaned lists of a document (GUAP), each
\* holds the names of its cleaned list that are not in the other cleaned list.
C6_Disjoint ==
    /\ \A rec \in Stored :
          Range(ListField(rec, "previousDisciplines"))
              \cap Range(ListField(rec, "nextDisciplines")) = {}
    /\ parser = "GUAP" =>
          \A l \in Loaded : \A e \in Range(l.stored) : \A f \in Documents(l) :
              ReadEntries(f) = <<e>> =>
                  Bind(GUAP_cleaned_lists(f.text), LAMBDA cleaned :
                      /\ Range(ListField(e.v, "previousDisciplines"))
                             = Range(cleaned[1]) \ Range(cleaned[2])
                      /\ Range(ListField(e.v, "nextDisciplines"))
                             = Range(cleaned[2]) \ Range(cleaned[1]))

\* a stored record comes from a document whose two cleaned lists share a name, and
\* names are left in both of its lists
C6_CommonRemoved ==
    /\ parser = "GUAP"
    /\ \E l \in Loaded : \E e \in Range(l.stored) : \E f \in Documents(l) :
          /\ ReadEntries(f) = <<e>>
          /\ Range(GUAP_cleaned_lists(f.text)[1])
                 \cap Range(GUAP_cleaned_lists(f.text)[2]) # {}
          /\ ListField(e.v, "previousDisciplines") # <<>>
          /\ ListField(e.v, "nextDisciplines") # <<>>

\* C7: previousDisciplines and nextDisciplines of a stored record each hold no two
\* entries that are equal once case and white space are ignored.
C7_NoDuplicates ==
    \A rec \in Stored :
        /\ NoDuplicates(ListField(rec, "previousDisciplines"))
        /\ NoDuplicates(ListField(rec, "nextDisciplines"))

\* C8: a collection written to its JSON file maps each direction to a mapping from
\* discipline name to record, and each record has exactly the fields
\* previousDisciplines (list), nextDisciplines (list) and topics (title -> list).
C8_Shape ==
    Persisted =>
        \A it \in Range(directionsOfStudy.items) :
            /\ it.v.kind = "dict"
            /\ \A e \in Range(it.v.items) : IsRecord(e.v)

\* C9: every name a record is stored under is a non-empty string.
C9_NameNotEmpty == \A l \in Loaded : \A e \in Range(l.stored) : e.k # <<>>

\* C10: every title recognised in the topic block of an accepted document of a loaded
\* direction is a key of the topics of its record.
C10_TitleRetained ==
    \A l \in Loaded : \A f \in Documents(l) : \A e \in Range(ReadEntries(f)) :
        RecognisedTitles(f) \subseteq {t.k : t \in Range(Topics(e.v))}

\* a document the loader reads and gets a record from, and one it reads and gets none
\* from (it does not open, or its reader gives it up)
Accepted(f) == ReadBy(f) /\ ReadEntries(f) # <<>>
Skipped(f) == ReadBy(f) /\ ReadEntries(f) = <<>>

\* the record of the last accepted document of a listing that bears the name
LastNamed(listing, name) ==
    Bind(Max({j \in 1..Len(listing) :
                 Accepted(listing[j]) /\ ReadEntries(listing[j])[1].k = name}), LAMBDA j :
        ReadEntries(listing[j])[1])

\* C11: whatever documents of a direction were skipped, every accepted document of a
\* loaded direction has its record in the collection (in a list: its own entry; in a
\* mapping: under its name, where the last document of that name is kept), and a call
\* that loads every direction leaves out no directory that has an accepted document.
C11_BatchNotAborted ==
    /\ \A l \in Loaded : \A f \in Range(l.listing) :
          Accepted(f) =>
              IF parser = "GUAP"
              THEN LastNamed(l.listing, ReadEntries(f)[1].k) \in Range(l.stored)
              ELSE ReadEntries(f)[1] \in Range(l.stored)
    /\ call.op \in {"load_all_directions", "start"} =>
          \A d \in Directions :
              IsDir(d) /\ (\E f \in Range(files[d].listing) : Accepted(f))
                  => HasKey(directionsOfStudy, d)
    /\ /\ call.op \in {"loadDirectionOfStudy", "_load_single_direction"}
       /\ IsDir(call.arg)
       /\ \E f \in Range(files[call.arg].listing) : Accepted(f)
       => HasKey(directionsOfStudy, call.arg)

\* a loaded direction whose first document does not open and whose second is accepted
C11_SkippedThenStored ==
    \E l \in Loaded :
        /\ Len(l.listing) = 2
        /\ ~l.listing[1].ok /\ Skipped(l.listing[1])
        /\ Accepted(l.listing[2])
        /\ ReadEntries(l.listing[2])[1] \in Range(l.stored)

\* the calls that write the collection to its JSON file
Saves == {"saveAsJson", "save_as_json", "start"}

\* C12: a call that writes the collection never leaves by an exception: a write that
\* fails is reported by the value False, and the collection is then what it was before
\* the call.
C12_SaveFailureIsStatus ==
    [][call'.op \in Saves =>
          /\ ret'.kind # "raise"
          /\ ret' = PyBool(FALSE) => directionsOfStudy' = directionsOfStudy]_vars

(***************************************************************************)
(* The white-space functions of ParserLETI (static methods), applied to a  *)
(* text and again to what they return.  call.arg is the text a function    *)
(* was applied to and ret the text it returned.                            *)
(***************************************************************************)
MaxTextLen == 4         \* characters in a text handed to a white-space function

\* a letter, the white space \s matches, the characters the functions name, a hyphen
SpaceChars == {"a", SP, NL, NBSP, SHY, ZWSP, CTL, "-"}

Texts(chars, n) == UNION {[1..k -> chars] : k \in 0..n}

\* the text the next function is applied to: the one just returned, or the first one
TextAtHand == IF ret.kind = "str" THEN ret.val ELSE call.arg

SpacesInit ==
    /\ parser = "LETI"
    /\ files = [d \in Directions |-> NoDir]
    /\ directionsOfStudy = EmptyDict
    /\ \E x \in Texts(SpaceChars, MaxTextLen) :
          call = [op |-> "__init__", arg |-> x, present |-> FALSE]
    /\ ret = PyNone
    /\ NoDataBase

\* ParserLETI.normalizeSpaces(text)
LETI_NormalizeSpaces ==
    /\ call' = [op |-> "normalizeSpaces", arg |-> TextAtHand, present |-> FALSE]
    /\ ret' = PyStr(LETI_normalizeSpaces(TextAtHand))
    /\ UNCHANGED <<parser, files, directionsOfStudy, dataBase>>

\* ParserLETI.cleanPdfSpaces(text)
LETI_CleanPdfSpaces ==
    /\ call' = [op |-> "cleanPdfSpaces", arg |-> TextAtHand, present |-> FALSE]
    /\ ret' = PyStr(LETI_cleanPdfSpaces(TextAtHand))
    /\ UNCHANGED <<parser, files, directionsOfStudy, dataBase>>

\* ParserLETI.cleanPdfText(text)
LETI_CleanPdfText ==
    /\ call' = [op |-> "cleanPdfText", arg |-> TextAtHand, present |-> FALSE]
    /\ ret' = PyStr(LETI_cleanPdfText(TextAtHand))
    /\ UNCHANGED <<parser, files, directionsOfStudy, dataBase>>

SpacesNext ==
    \/ LETI_NormalizeSpaces
    \/ LETI_CleanPdfSpaces
    \/ LETI_CleanPdfText

SpecSpaces == SpacesInit /\ [][SpacesNext]_vars

\* C13: normalizeSpaces, cleanPdfSpaces or cleanPdfText applied to the text the same
\* function has just returned returns that text again.
C13_Idempotent ==
    [][call.op \in {"normalizeSpaces", "cleanPdfSpaces", "cleanPdfText"} /\ call'.op = call.op
           => ret' = ret]_vars

(***************************************************************************)
(* The readers applied to one text.  The text is put together from a few   *)
(* pieces, each a marker of the parser with a little content after it, in  *)
(* any order and number; call.arg is the text and ret what the reader      *)
(* returned for it.                                                        *)
(***************************************************************************)
MaxPieces == 3          \* pieces a text is put together from

\* a topic block "Раздел 1. <section> Тема 1.1 <topic>. <text>."
MTUCI_topicBlock(section, topic, text) ==
    <<"Razdel", SP, "1", ".", SP>> \o section \o <<SP>> \o MTUCI_themeHeading
        \o <<SP>> \o topic \o <<".", SP>> \o text \o <<".">>

\* the two title markers with a name, the end of the name, the two prerequisite markers
\* with a list, two of the topic markers with a section, the first of them with a
\* topic block, a section with a theme, a theme with two stop phrases, a theme
\* heading with a stop phrase and no title, the end of the topics
MTUCI_pieces ==
    { MTUCI_titleOfDocument[1] \o <<NL, "A", "b", "c", SP, NL>>,
      MTUCI_titleOfDocument[2] \o <<NL, "B", "c", "d", SP, NL>>,
      MTUCI_nameEnd \o <<SP, NL>>,
      MTUCI_textForPreviousDisciplines[1] \o <<"B", "c", "d", ",", SP, "C", "d", "a", ".", SP, NL>>,
      MTUCI_textForPreviousDisciplines[2] \o <<SP, "D", "a", "b", ".", SP, NL>>,
      MTUCI_textForEducationalUnits[1] \o MTUCI_sectionHeader \o <<SP, "C", "a", "b", SP>>,
      MTUCI_textForEducationalUnits[2] \o MTUCI_sectionHeader
          \o <<SP, "T", "a", "b", SP>> \o MTUCI_themeHeading \o <<SP, "D", "a", "b">>,
      MTUCI_textForEducationalUnits[1]
          \o MTUCI_topicBlock(<<"A", "b", "c">>, <<"B", "c", "d">>, <<"c", "d", "a">>) \o <<SP>>,
      MTUCI_sectionHeader \o <<SP, "C", "a", "b", SP>> \o MTUCI_themeHeading
          \o <<SP, "D", "a", "b", SP>>,
      MTUCI_themeHeading \o <<SP, "B", "c", "d", SP>> \o MTUCI_endTextForTopics[3]
          \o <<SP, "c", "d", "a", SP>> \o MTUCI_endTextForTopics[1] \o <<SP>>,
      MTUCI_themeHeading \o <<SP>> \o MTUCI_endTextForTopics[1] \o <<SP>>,
      MTUCI_endTextForEducationalUnits \o <<SP, NL>> }

\* the two follow-on markers with a list, the two headings that end the list, a
\* further item; the start of the content with a topic, two of the headings that end
\* the content, one of them followed by a second topic
MPU_pieces ==
    { MPU_nextDisciplinesMarkers[1] \o <<":", NL, "-", SP, "A", "b", "c", NL>>,
      MPU_nextDisciplinesMarkers[2] \o <<":", NL, "-", SP, "B", "c", "d", NL>>,
      <<NL, "3", ".", SP, "a", "b", NL>>,
      <<NL, "3", SP, "a", "b", NL, BUL, SP, "C", "d", "a", ";", NL>>,
      <<BUL, SP, "C", "d", "a", ";", NL>>,
      MPU_contentStartFull \o <<NL, "Razdel", SP, "1", ".", SP, "A", "b", "c", "d", "a", "b", ".",
                                SP, "B", "c", "d", "a", "b", "c", ".", NL>>,
      MPU_contentEndPatterns[2] \o <<NL, "Tema", SP, "2", SP, "C", "d", "a", "b", "c", "d", ".",
                                     SP, "D", "a", "b", "c", "d", "a", ".", NL>>,
      MPU_contentEndPatterns[1] \o <<NL>> }

\* the title with a name, the prerequisites, the start of the topics with a topic, a
\* second topic, the end of the topics
LETI_pieces ==
    { LETI_textWithNameSubject \o <<SP, LQ, "A", "b", "c", RQ, SP>>,
      LETI_textForPreviousSubject \o <<SP, LQ, "A", "b", "d", RQ, SP>>
          \o LETI_endTextForPreviousSubject \o <<SP>>,
      LETI_textForSubjectTopics \o <<SP, "1", SP, "A", "b", "c", ".", SP, "B", "c", "d", SP>>,
      <<"2", SP, "C", "d", "a", ".", SP, "D", "a", "b", SP>>,
      LETI_endText \o <<SP>> }

Pieces(p) ==
    CASE p = "MTUCI" -> MTUCI_pieces
      [] p = "MPU" -> MPU_pieces
      [] p = "LETI" -> LETI_pieces

ReaderTexts(p) == {Concat(ps) : ps \in Texts(Pieces(p), MaxPieces)}

ReadersInit ==
    /\ parser \in {"MTUCI", "MPU", "LETI"}
    /\ files = [d \in Directions |-> NoDir]
    /\ directionsOfStudy = EmptyDict
    /\ \E x \in ReaderTexts(parser) : call = [op |-> "__init__", arg |-> x, present |-> FALSE]
    /\ ret = PyNone
    /\ NoDataBase

\* ParserMTUCI.readTextFromFileDiscipline on a file with the text
MTUCI_ReadText ==
    /\ parser = "MTUCI"
    /\ call' = [call EXCEPT !.op = "readTextFromFileDiscipline"]
    /\ ret' = MTUCI_readTextFromFileDiscipline(File(<<"a">>, pdf, TRUE, call.arg, <<>>))
    /\ UNCHANGED <<parser, files, directionsOfStudy, dataBase>>

\* ParserMPU._extract_next_disciplines(full_text)
MPU_ExtractNext ==
    /\ parser = "MPU"
    /\ call' = [call EXCEPT !.op = "_extract_next_disciplines"]
    /\ ret' = PyList(MPU_extract_next_disciplines(call.arg))
    /\ UNCHANGED <<parser, files, directionsOfStudy, dataBase>>

\* ParserMPU._extract_topics(full_text)
MPU_ExtractTopics ==
    /\ parser = "MPU"
    /\ call' = [call EXCEPT !.op = "_extract_topics"]
    /\ ret' = MPU_extract_topics(call.arg)
    /\ UNCHANGED <<parser, files, directionsOfStudy, dataBase>>

\* ParserLETI.readPdf on a file with the text
LETI_ReadPdf ==
    /\ parser = "LETI"
    /\ call' = [call EXCEPT !.op = "readPdf"]
    /\ ret' = LETI_readPdf(File(<<"a">>, pdf, TRUE, call.arg, <<>>))
    /\ UNCHANGED <<parser, files, directionsOfStudy, dataBase>>

ReadersNext ==
    \/ MTUCI_ReadText
    \/ MPU_ExtractNext
    \/ MPU_ExtractTopics
    \/ LETI_ReadPdf

SpecReaders == ReadersInit /\ [][ReadersNext]_vars

\* the marker of an ordered list that comes first in the list among those in the text
Lowest(text, markers) ==
    markers[Min({i \in 1..Len(markers) : Contains(text, markers[i])})]

\* C14: a section that has an ordered list of markers is the one that follows the
\* first marker of the list found in the text, wherever the markers stand in the text:
\* the name, the prerequisites and the topics of ParserMTUCI, the follow-on
\* disciplines of ParserMPU.
C14_LowestMarkerUsed ==
    /\ call.op = "readTextFromFileDiscipline" /\ parser = "MTUCI"
           /\ AnyIn(call.arg, MTUCI_titleOfDocument) =>
          Bind(Lowest(call.arg, MTUCI_titleOfDocument), LAMBDA m :
          Bind(MTUCI_nameAt(call.arg, m, Find(call.arg, m)), LAMBDA name :
              IF name = <<>> THEN ret = Rejected ELSE ret[1] = PyStr(name)))
    /\ call.op = "readTextFromFileDiscipline" /\ parser = "MTUCI" /\ ret # Rejected
           /\ AnyIn(call.arg, MTUCI_textForPreviousDisciplines) =>
          Bind(Lowest(call.arg, MTUCI_textForPreviousDisciplines), LAMBDA m :
              ListField(ret[2], "previousDisciplines")
                  = MTUCI_previousAt(call.arg, m, Find(call.arg, m)))
    /\ call.op = "readTextFromFileDiscipline" /\ parser = "MTUCI" /\ ret # Rejected
           /\ AnyIn(call.arg, MTUCI_textForEducationalUnits) =>
          Bind(Lowest(call.arg, MTUCI_textForEducationalUnits), LAMBDA m :
              Get(ret[2], "topics") = MTUCI_topicsAt(call.arg, m, Find(call.arg, m)))
    /\ call.op = "_extract_next_disciplines"
           /\ AnyIn(call.arg, MPU_nextDisciplinesMarkers) =>
          ret = PyList(MPU_nextAt(call.arg, Lowest(call.arg, MPU_nextDisciplinesMarkers)))

\* the nearest place after index from where one of the terminators occurs in the text,
\* -1 when none does
NearestAfter(text, terminators, from) ==
    Bind({FindFrom(text, terminators[i], from) : i \in 1..Len(terminators)} \ {-1},
         LAMBDA found : IF found = {} THEN -1 ELSE Min(found))

\* the content marker that _extract_topics finds in the text
MPU_foundContentMarker(full_text) ==
    IF Contains(full_text, MPU_contentStartFull) THEN MPU_contentStartFull
    ELSE IF Contains(full_text, MPU_contentStartShort) THEN MPU_contentStartShort
         ELSE MPU_contentStartMarker

\* what readPdf returns for the topics when the themes of its section are these
LETI_topicsResult(themes) ==
    IF themes = <<>> THEN PyNone
    ELSE PyList(LETI_cleanThemeItems(LETI_parsedThemes(themes)))

\* the topics of what readPdf returned
LETI_topicsReturned(result) ==
    IF result = PyNone THEN PyNone ELSE Get(result.items[1].v, "topics")

\* C15: a section found by its marker ends at the nearest place after the marker where
\* one of its terminators occurs, whatever the order of the terminators in the
\* configuration and whatever stands before the marker: the content of
\* ParserMPU._extract_topics, the topics of ParserLETI.readPdf, the follow-on block of
\* ParserMPU._extract_next_disciplines.
C15_NearestTerminator ==
    /\ call.op = "_extract_topics" /\ MPU_contentPos(call.arg) # -1 =>
          LET content_pos == MPU_contentPos(call.arg)
              after == content_pos + Len(MPU_foundContentMarker(call.arg))
              nearest == NearestAfter(call.arg, MPU_contentEndPatterns, after)
          IN  nearest # -1 =>
                  ret = MPU_topicsOf(Slice(call.arg, content_pos, nearest))
    /\ call.op = "readPdf" =>
          LET fullText == LETI_cleanPdfText(call.arg)
              found == Find(fullText, LETI_textForSubjectTopics)
              startIdx == found + Len(LETI_textForSubjectTopics)
              nearest == FindFrom(fullText, LETI_endText, startIdx)
          IN  found # -1 /\ nearest # -1 =>
                  LETI_topicsReturned(ret) = LETI_topicsResult(LETI_themesOf(
                      LETI_topicsOf(Slice(fullText, startIdx, nearest))))
    /\ call.op = "_extract_next_disciplines" /\ MPU_usedMarker(call.arg) # 0 =>
          LET used_marker == MPU_nextDisciplinesMarkers[MPU_usedMarker(call.arg)]
              after_marker == SliceFrom(call.arg, Find(call.arg, used_marker) + Len(used_marker))
              colon_pos == Find(after_marker, <<":">>)
              after_colon == SliceFrom(after_marker, colon_pos + 1)
              nearest == NearestAfter(after_colon, <<<<NL, "3", ".">>, <<NL, "3", SP>>>>, 0)
          IN  colon_pos # -1 /\ nearest # -1 =>
                  ret = PyList(MPU_blockItems(Split(SliceTo(after_colon, nearest), <<NL>>)))

\* C16: a section whose marker is found and after whose marker none of its
\* terminators occurs is the whole text from the end of the marker to the end of the
\* document: the topics of ParserMTUCI.readTextFromFileDiscipline, of
\* ParserMPU._extract_topics and of ParserLETI.readPdf are those of that text.
C16_UnterminatedRunsToEnd ==
    /\ call.op = "readTextFromFileDiscipline" /\ ret # Rejected
           /\ AnyIn(call.arg, MTUCI_textForEducationalUnits) =>
          LET m == Lowest(call.arg, MTUCI_textForEducationalUnits)
              after == CollapseWs(SliceFrom(call.arg, Find(call.arg, m) + Len(m)))
          IN  ~Contains(after, MTUCI_endTextForEducationalUnits) =>
                  Get(ret[2], "topics") = MTUCI_topicsOf(after)
    /\ call.op = "_extract_topics" /\ MPU_contentPos(call.arg) # -1 =>
          LET content_pos == MPU_contentPos(call.arg)
              after == content_pos + Len(MPU_foundContentMarker(call.arg))
          IN  NearestAfter(call.arg, MPU_contentEndPatterns, after) = -1 =>
                  ret = MPU_topicsOf(SliceFrom(call.arg, content_pos))
    /\ call.op = "readPdf" =>
          LET fullText == LETI_cleanPdfText(call.arg)
              found == Find(fullText, LETI_textForSubjectTopics)
              startIdx == found + Len(LETI_textForSubjectTopics)
          IN  found # -1 /\ FindFrom(fullText, LETI_endText, startIdx) = -1 =>
                  LETI_topicsReturned(ret) = LETI_topicsResult(LETI_themesOf(
                      LETI_topicsOf(SliceFrom(fullText, startIdx))))

(***************************************************************************)
(* The list extractor of ParserGUAP on blocks of quoted names, under a     *)
(* specification of its own: a block is chosen at the start, then          *)
(* _extract_list_items reads it and _clean_discipline_list cleans what was *)
(* read.                                                                   *)
(***************************************************************************)
MaxNames == 3          \* names in a block

\* names of disciplines: one word, the same word in another case, two words, a word
\* and a number
ListNames ==
    { <<"A", "b", "c", "d">>, <<"B", "c", "d", "a">>, <<"C", "a", "b">>,
      <<"A", "B", "c", "d">>, <<"A", "b", SP, "c", "d">>, <<"A", "b", "c", SP, "2">> }

\* «name», «name», ... «name».
RECURSIVE QuotedBlock(_)
QuotedBlock(names) ==
    IF Len(names) = 1 THEN <<LQ>> \o names[1] \o <<RQ, ".">>
    ELSE <<LQ>> \o Head(names) \o <<RQ, ",", SP>> \o QuotedBlock(Tail(names))

ListBlocks == {QuotedBlock(names) : names \in Texts(ListNames, MaxNames) \ {<<>>}}

\* the names between the quotes of such a block
QuotedNames(block) == Range(Split(Slice(block, 1, Len(block) - 2), <<RQ, ",", SP, LQ>>))

ListsInit ==
    /\ parser = "GUAP"
    /\ files = [d \in Directions |-> NoDir]
    /\ directionsOfStudy = EmptyDict
    /\ \E x \in ListBlocks : call = [op |-> "__init__", arg |-> x, present |-> FALSE]
    /\ ret = PyNone
    /\ NoDataBase

\* ParserGUAP._extract_list_items(text_block)
GUAP_ExtractListItems ==
    /\ call.op = "__init__"
    /\ call' = [call EXCEPT !.op = "_extract_list_items"]
    /\ ret' = PyList(GUAP_extract_list_items(call.arg))
    /\ UNCHANGED <<parser, files, directionsOfStudy, dataBase>>

\* ParserGUAP._clean_discipline_list(items), items being what was extracted
GUAP_CleanDisciplineList ==
    /\ call.op = "_extract_list_items"
    /\ call' = [call EXCEPT !.op = "_clean_discipline_list"]
    /\ ret' = PyList(GUAP_clean_discipline_list(ret.items))
    /\ UNCHANGED <<parser, files, directionsOfStudy, dataBase>>

ListsNext ==
    \/ GUAP_ExtractListItems
    \/ GUAP_CleanDisciplineList

SpecLists == ListsInit /\ [][ListsNext]_vars

\* C17: _extract_list_items followed by _clean_discipline_list, on a block of quoted
\* names separated by commas and ended by a full stop, returns the quoted names and
\* nothing else, each once, in ascending order; none of them is empty.
C17_QuotedNamesSorted ==
    call.op = "_clean_discipline_list" =>
        /\ Range(ret.items) = QuotedNames(call.arg)
        /\ \A i, j \in 1..Len(ret.items) : i < j => StrLess(ret.items[i], ret.items[j])
        /\ <<>> \notin Range(ret.items)

\* the words a topic block is written with
BlockWords == {<<"A", "b", "c">>, <<"B", "c", "d">>, <<"c", "d", "a">>}

\* the section that lines 137-139 hand to the segmenter, for a document with a topic marker
MTUCI_subText(fullText) ==
    LET m == Lowest(fullText, MTUCI_textForEducationalUnits)
        after == CollapseWs(SliceFrom(fullText, Find(fullText, m) + Len(m)))
    IN  SliceTo(after, Find(after, MTUCI_endTextForEducationalUnits))

\* C18: when the section that ParserMTUCI segments is a topic block
\* "Раздел N. <section title> Тема N.M <topic title>. <text>.", the topics returned
\* have the key <section title>, and its list holds "<topic title>. <text>"; the
\* topics are not empty.
C18_SectionWithTopic ==
    call.op = "readTextFromFileDiscipline" /\ ret # Rejected
        /\ AnyIn(call.arg, MTUCI_textForEducationalUnits) =>
        \A section, topic, text \in BlockWords :
            Strip(MTUCI_subText(call.arg), Whitespace) = MTUCI_topicBlock(section, topic, text) =>
                /\ Get(ret[2], "topics") # EmptyDict
                /\ HasKey(Get(ret[2], "topics"), section)
                /\ topic \o <<".", SP>> \o text \in Range(Get(Get(ret[2], "topics"), section).items)

(***************************************************************************)
(* The segmenter of ParserSpbPU on topic sections made of heading lines    *)
(* and body lines, under a specification of its own: a document with such  *)
(* a section is chosen at the start and readTextFromFileDiscipline reads   *)
(* it.                                                                     *)
(***************************************************************************)
MaxLines == 3          \* lines in the topic section

\* the lines in bold type: two numbered headings and one without a number
SegHeadings == << <<"1", ".", SP, "T", "a", "b">>, <<"2", ".", SP, "D", "a", "b">>,
                  <<"C", "a", "b">> >>
\* the lines in plain type
SegBodies == { <<"A", "b", "c", "d">>, <<"b", "c", "d", "a">> }

\* the text of the lines, each with its end of line
RECURSIVE SegText(_)
SegText(lines) ==
    IF lines = <<>> THEN <<>> ELSE Head(lines) \o <<SP, NL>> \o SegText(Tail(lines))

\* a document with a title, the topic marker, the lines and the end of the topics
SegDocument(lines) ==
    SpbPU_title(<<"A", "b", "c">>) \o SpbPU_textForEducationalUnits \o SegText(lines)
        \o SpbPU_endTextForEducationalUnits \o <<SP, NL>>

SegmentsInit ==
    /\ parser = "SpbPU"
    /\ files = [d \in Directions |-> NoDir]
    /\ directionsOfStudy = EmptyDict
    /\ \E lines \in Texts(Range(SegHeadings) \cup SegBodies, MaxLines) :
           call = [op |-> "__init__", arg |-> SegDocument(lines), present |-> FALSE]
    /\ ret = PyNone
    /\ NoDataBase

\* ParserSpbPU.readTextFromFileDiscipline on a file with the document, its headings
\* being the lines in bold type
SpbPU_ReadText ==
    /\ call' = [call EXCEPT !.op = "readTextFromFileDiscipline"]
    /\ ret' = SpbPU_readTextFromFileDiscipline(File(<<"a">>, pdf, TRUE, call.arg, SegHeadings))
    /\ UNCHANGED <<parser, files, directionsOfStudy, dataBase>>

SegmentsNext == SpbPU_ReadText

SpecSegments == SegmentsInit /\ [][SegmentsNext]_vars

\* the lines of the topic section of such a document
SegLines(text) ==
    LET from == Find(text, SpbPU_textForEducationalUnits) + Len(SpbPU_textForEducationalUnits)
        block == Slice(text, from, Find(text, SpbPU_endTextForEducationalUnits))
    IN  SelectSeq(Split(block, <<SP, NL>>), LAMBDA line : line # <<>>)

\* line i is a heading, and the line after it is a body line
SegHasBody(lines, i) ==
    /\ lines[i] \in Range(SegHeadings)
    /\ i < Len(lines)
    /\ lines[i + 1] \in SegBodies

\* C19: the topics ParserSpbPU returns for a section of heading and body lines have
\* one entry for each heading line that is followed by a body line before the next
\* heading or the end, and none for a heading line that is not: there are as many
\* entries as different headings with a body, and the title of a numbered heading is
\* a key exactly when that heading has a body somewhere in the section.
C19_EntryIffBody ==
    call.op = "readTextFromFileDiscipline" /\ parser = "SpbPU" =>
        LET lines == SegLines(call.arg)
            topics == Get(ret[2], "topics")
        IN  /\ Len(topics.items)
                  = Cardinality({lines[i] : i \in {j \in 1..Len(lines) : SegHasBody(lines, j)}})
            /\ \A h \in {SegHeadings[1], SegHeadings[2]} :
                   HasKey(topics, SpbPU_topicKey(h))
                       <=> \E i \in 1..Len(lines) : lines[i] = h /\ SegHasBody(lines, i)

(***************************************************************************)
(* DataBaseController (src/dataBase/dataBaseController.py): the store of   *)
(* the users.  A row of the table "users" is its first column, the number  *)
(* the data base gives it, and its column hash_login_password.  SHA-256 is *)
(* taken to have no collisions: a digest stands for the one text it was    *)
(* computed from.                                                          *)
(***************************************************************************)
MaxUsers == 2          \* rows in the table

\* the logins and the passwords the callers use
Logins == { <<"a">>, <<"a", ":", "b">> }
Passwords == { <<"c">>, <<"b", ":", "c">>, <<"b">> }

\* hashlib.sha256(text.encode('utf-8')).hexdigest()
Sha256(text) == [sha256 |-> text]

\* DataBaseController.__getHashByLoginPwd
DB_getHashByLoginPwd(login, password) == Sha256(login \o <<":">> \o password)

\* the connections the pool hands out at most (maxConnNumber of the constructor)
DB_maxConnNumber == 2

\* a SimpleConnectionPool, before and after closeall(), with the number of its
\* connections that getconn handed out and putconn did not get back
Pool(closed, used) == [kind |-> "pool", closed |-> closed, used |-> used]

\* the pool is there and closeall() was not called on it
DB_poolOpen == poolConnections # PyNone /\ ~poolConnections.closed

\* isConnected
DB_isConnected == poolConnections # PyNone

UsersInit ==
    /\ parser = "DataBaseController"
    /\ files = [d \in Directions |-> NoDir]
    /\ directionsOfStudy = EmptyDict
    /\ call = [op |-> "__init__", arg |-> <<>>, present |-> FALSE]
    /\ ret = PyNone
    /\ poolConnections = PyNone
    /\ users = <<>>
    /\ addedUsers = {}

\* openConnection: the pool is made, or the making raises and False is returned
DB_openConnection ==
    /\ call' = [op |-> "openConnection", arg |-> <<>>, present |-> FALSE]
    /\ \E made \in BOOLEAN :
          /\ poolConnections' = IF made THEN Pool(FALSE, 0) ELSE poolConnections
          /\ ret' = PyBool(made)
    /\ UNCHANGED <<parser, files, directionsOfStudy, users, addedUsers>>

\* closeConnection: closeall() on the pool, which stays in its attribute
DB_closeConnection ==
    /\ call' = [op |-> "closeConnection", arg |-> <<>>, present |-> FALSE]
    /\ poolConnections' = IF DB_isConnected THEN Pool(TRUE, poolConnections.used)
                          ELSE poolConnections
    /\ ret' = PyNone
    /\ UNCHANGED <<parser, files, directionsOfStudy, users, addedUsers>>

\* addUser(login, password): without a pool False.  getconn raises on a closed pool,
\* on one that has handed out all its connections, or when no connection can be made:
\* the except block returns False and the finally block raises on the cursor that is
\* None.  The same when connection.cursor() raises, and the connection is not put
\* back.  Else the INSERT either is committed or raises and is rolled back.
DB_addUser(login, password) ==
    /\ call' = [op |-> "addUser", arg |-> <<login, password>>, present |-> FALSE]
    /\ \/ /\ ~DB_isConnected
          /\ ret' = PyBool(FALSE)
          /\ UNCHANGED <<poolConnections, users, addedUsers>>
       \/ /\ DB_isConnected /\ poolConnections.closed
          /\ ret' = Raised("AttributeError")
          /\ UNCHANGED <<poolConnections, users, addedUsers>>
       \/ /\ DB_poolOpen
          /\ ret' = Raised("AttributeError")
          /\ UNCHANGED <<poolConnections, users, addedUsers>>
       \/ /\ DB_poolOpen /\ poolConnections.used < DB_maxConnNumber
          /\ poolConnections' = [poolConnections EXCEPT !.used = @ + 1]
          /\ ret' = Raised("AttributeError")
          /\ UNCHANGED <<users, addedUsers>>
       \/ /\ DB_poolOpen /\ poolConnections.used < DB_maxConnNumber
          /\ Len(users) < MaxUsers
          /\ users' = Append(users, [id |-> Len(users) + 1,
                                     hash_login_password |-> DB_getHashByLoginPwd(login, password)])
          /\ addedUsers' = addedUsers \cup {<<login, password>>}
          /\ ret' = PyBool(TRUE)
          /\ UNCHANGED poolConnections
       \/ /\ DB_poolOpen /\ poolConnections.used < DB_maxConnNumber
          /\ ret' = PyBool(FALSE)
          /\ UNCHANGED <<poolConnections, users, addedUsers>>
    /\ UNCHANGED <<parser, files, directionsOfStudy>>

\* findUser(login, password): {"id": ...} of a row with the hash, {} if there is none,
\* if the SELECT raises or without a pool; getconn and connection.cursor() fail as in
\* addUser
DB_findUser(login, password) ==
    /\ call' = [op |-> "findUser", arg |-> <<login, password>>, present |-> FALSE]
    /\ LET userHash == DB_getHashByLoginPwd(login, password)
           found == {i \in 1..Len(users) : users[i].hash_login_password = userHash}
       IN  \/ /\ ~DB_isConnected
              /\ ret' = EmptyDict
              /\ UNCHANGED poolConnections
           \/ /\ DB_isConnected /\ poolConnections.closed
              /\ ret' = Raised("AttributeError")
              /\ UNCHANGED poolConnections
           \/ /\ DB_poolOpen
              /\ ret' = Raised("AttributeError")
              /\ UNCHANGED poolConnections
           \/ /\ DB_poolOpen /\ poolConnections.used < DB_maxConnNumber
              /\ poolConnections' = [poolConnections EXCEPT !.used = @ + 1]
              /\ ret' = Raised("AttributeError")
           \/ /\ DB_poolOpen /\ poolConnections.used < DB_maxConnNumber
              /\ ret' = EmptyDict
              /\ UNCHANGED poolConnections
           \/ /\ DB_poolOpen /\ poolConnections.used < DB_maxConnNumber
              /\ \E i \in found : ret' = PyDict(<<Item("id", users[i].id)>>)
              /\ UNCHANGED poolConnections
    /\ UNCHANGED <<parser, files, directionsOfStudy, users, addedUsers>>

UsersNext ==
    \/ DB_openConnection
    \/ DB_closeConnection
    \/ \E login \in Logins, password \in Passwords : DB_addUser(login, password)
    \/ \E login \in Logins, password \in Passwords : DB_findUser(login, password)

SpecUsers == UsersInit /\ [][UsersNext]_vars

\* C20: findUser(login, password) returns a record only if addUser has stored exactly
\* that pair of login and password, and no two different pairs that were stored have
\* the same key in the table.
C20_KeySeparatesCredentials ==
    /\ call.op = "findUser" /\ ret.kind = "dict" /\ ret # EmptyDict =>
           <<call.arg[1], call.arg[2]>> \in addedUsers
    /\ \A p, q \in addedUsers :
           p # q => DB_getHashByLoginPwd(p[1], p[2]) # DB_getHashByLoginPwd(q[1], q[2])

\* a name with its letters in lower case and its white space taken out
DedupKey(name) == SelectSeq(LowerStr(name), LAMBDA c : c \notin Whitespace)

\* the places of a list where the cleaned candidate is a name of a discipline with the key
CandidatesWith(items, key) ==
    {j \in 1..Len(items) :
        /\ Len(GUAP_cleanItem(items[j])) >= 3
        /\ GUAP_is_valid_discipline(GUAP_cleanItem(items[j]))
        /\ DedupKey(GUAP_cleanItem(items[j])) = key}

\* C21: _clean_discipline_list returns, for the candidates that have the same key
\* (lower case, white space taken out), exactly one entry, and that entry is the
\* cleaned form of the first of them in the order of the input.
C21_FirstOccurrenceKept ==
    [][call'.op = "_clean_discipline_list" =>
          \A i \in 1..Len(ret.items) :
              Bind(DedupKey(GUAP_cleanItem(ret.items[i])), LAMBDA key :
              Bind(CandidatesWith(ret.items, key), LAMBDA candidates :
                  candidates # {} =>
                      /\ Cardinality({k \in 1..Len(ret'.items) :
                                         DedupKey(ret'.items[k]) = key}) = 1
                      /\ GUAP_cleanItem(ret.items[Min(candidates)]) \in Range(ret'.items)))]_vars

\* a block with two different names of one key was read and cleaned, and one entry
\* with that key came out
C21_VariantsCollapsed ==
    /\ call.op = "_clean_discipline_list"
    /\ \E a, b \in QuotedNames(call.arg) :
           /\ a # b
           /\ DedupKey(a) = DedupKey(b)
           /\ Cardinality({k \in 1..Len(ret.items) : DedupKey(ret.items[k]) = DedupKey(a)}) = 1

(***************************************************************************)
(* _extract_list_items on one line of names without quotes, the names      *)
(* separated by commas or by semicolons.                                   *)
(***************************************************************************)
\* the delimiters of a line
Delimiters == {",", ";"}

\* name<delimiter> name<delimiter> ... name
RECURSIVE DelimitedLine(_, _)
DelimitedLine(names, delimiter) ==
    IF Len(names) = 1 THEN names[1]
    ELSE Head(names) \o <<delimiter, SP>> \o DelimitedLine(Tail(names), delimiter)

LinesInit ==
    /\ parser = "GUAP"
    /\ files = [d \in Directions |-> NoDir]
    /\ directionsOfStudy = EmptyDict
    /\ \E names \in Texts(ListNames, MaxNames) \ {<<>>}, delimiter \in Delimiters :
           call = [op |-> "__init__", arg |-> DelimitedLine(names, delimiter), present |-> FALSE]
    /\ ret = PyNone
    /\ NoDataBase

LinesNext == GUAP_ExtractListItems

SpecLines == LinesInit /\ [][LinesNext]_vars

HasDigit(line) == \E k \in 1..Len(line) : line[k] \in Digits

\* C22: _extract_list_items splits a line that holds commas or semicolons and no
\* digit at that delimiter, one candidate for each part, and returns a line that
\* holds a digit as one candidate.
C22_SplitUnlessDigit ==
    call.op = "_extract_list_items" =>
        /\ \A delimiter \in Delimiters :
               Contains(call.arg, <<delimiter>>) /\ ~HasDigit(call.arg) =>
                   ret.items = Split(call.arg, <<delimiter, SP>>)
        /\ HasDigit(call.arg) => ret.items = <<call.arg>>

(***************************************************************************)
(* The sections of the topic block of ParserMTUCI that have no theme       *)
(* heading.                                                                *)
(***************************************************************************)
\* <<before, header, body, header, body, ...>> of the section that is segmented
MTUCI_parts(fullText) == MTUCI_reSplit("section", MTUCI_subText(fullText))

\* the positions in parts of the section headers whose body has no theme heading
Themeless(parts) ==
    {i \in 2..(Len(parts) - 1) : i % 2 = 0 /\ Len(MTUCI_reSplit("theme", parts[i + 1])) = 1}

\* the name of the section: the text of its body before the first theme heading,
\* the section header when there is none
SectionName(parts, i) ==
    Bind(Strip(MTUCI_reSplit("theme", parts[i + 1])[1], Whitespace), LAMBDA name :
        IF name = <<>> THEN Strip(parts[i], Whitespace) ELSE name)

\* the key the section is stored under: its name, up to the first stop phrase when
\* the section has no theme heading
SectionKey(parts, i) ==
    IF i \in Themeless(parts)
    THEN MTUCI_cut_by_words(SectionName(parts, i), MTUCI_endTextForTopics)
    ELSE SectionName(parts, i)

\* C23: every section header matched in the topic block of ParserMTUCI whose body
\* has no theme heading is a key of the topics returned, and its list of topics is
\* empty.
C23_ThemelessSectionRecorded ==
    call.op = "readTextFromFileDiscipline" /\ ret # Rejected
        /\ AnyIn(call.arg, MTUCI_textForEducationalUnits) =>
        Bind(MTUCI_parts(call.arg), LAMBDA parts :
            \A i \in Themeless(parts) :
                /\ HasKey(Get(ret[2], "topics"), SectionKey(parts, i))
                /\ Get(Get(ret[2], "topics"), SectionKey(parts, i)) = PyList(<<>>))

(***************************************************************************)
(* The stop phrases in the themes of a section of ParserMTUCI.             *)
(***************************************************************************)
\* the positions in parts of the section headers whose body has a theme heading and
\* whose key no later section has
LastThemed(parts) ==
    {i \in 2..(Len(parts) - 1) :
        /\ i % 2 = 0 /\ i \notin Themeless(parts)
        /\ \A j \in (i + 1)..(Len(parts) - 1) :
               j % 2 = 0 => SectionKey(parts, j) # SectionKey(parts, i)}

\* the spans of the themes of a section body: each heading with the text after it
ThemeSpans(section_body) ==
    Bind(MTUCI_reSplit("theme", section_body), LAMBDA themes_parts :
        [n \in 1..((Len(themes_parts) - 1) \div 2) |->
            themes_parts[2 * n] \o themes_parts[2 * n + 1]])

\* the span up to the nearest stop phrase, the whole span when it has none
UpToStop(span) ==
    Bind(NearestAfter(span, MTUCI_endTextForTopics, 0), LAMBDA nearest :
        IF nearest = -1 THEN span ELSE Strip(SliceTo(span, nearest), Whitespace))

\* the title in a span: what follows the heading, without full stops and spaces around
TitleIn(span) ==
    Strip(LStrip(SliceFrom(span, MTUCI_themeHeadingLen(span)), Whitespace), {".", SP})

\* C24: in ParserMTUCI the span of a theme, its heading with the text up to the next
\* heading, is cut at the smallest position where one of the stop phrases occurs,
\* whatever the order of the stop phrases in the configuration, and is whole when
\* none occurs: the titles of the themes of a section are what is left of the spans
\* so cut.
C24_CutAtEarliestStop ==
    call.op = "readTextFromFileDiscipline" /\ ret # Rejected
        /\ AnyIn(call.arg, MTUCI_textForEducationalUnits) =>
        Bind(MTUCI_parts(call.arg), LAMBDA parts :
            \A i \in LastThemed(parts) :
                Bind(ThemeSpans(parts[i + 1]), LAMBDA spans :
                Bind(Range(Get(Get(ret[2], "topics"), SectionKey(parts, i)).items),
                     LAMBDA titles :
                    /\ \A n \in 1..Len(spans) :
                           TitleIn(UpToStop(spans[n])) # <<>> =>
                               TitleIn(UpToStop(spans[n])) \in titles
                    /\ \A t \in titles :
                           \E n \in 1..Len(spans) : t = TitleIn(UpToStop(spans[n])))))

\* a theme was read whose span has a later stop phrase of the configuration before an
\* earlier one, and its title ends at the nearer one
C24_NearerPhraseLaterInOrder ==
    /\ call.op = "readTextFromFileDiscipline" /\ ret # Rejected
    /\ AnyIn(call.arg, MTUCI_textForEducationalUnits)
    /\ \E i \in LastThemed(MTUCI_parts(call.arg)) :
           \E n \in 1..Len(ThemeSpans(MTUCI_parts(call.arg)[i + 1])) :
               Bind(ThemeSpans(MTUCI_parts(call.arg)[i + 1])[n], LAMBDA span :
                   /\ Contains(span, MTUCI_endTextForTopics[1])
                   /\ Contains(span, MTUCI_endTextForTopics[3])
                   /\ Find(span, MTUCI_endTextForTopics[3]) < Find(span, MTUCI_endTextForTopics[1])
                   /\ Get(Get(ret[2], "topics"), SectionKey(MTUCI_parts(call.arg), i)).items
                          = <<<<"B", "c", "d">>>>)

\* C25: in ParserMTUCI a theme whose title is empty once the heading is taken off is
\* still in the list of its section, with the header of the section as its title: the
\* list of a section has one title for each of its theme headings, in their order.
C25_EmptyTitleFallsBack ==
    call.op = "readTextFromFileDiscipline" /\ ret # Rejected
        /\ AnyIn(call.arg, MTUCI_textForEducationalUnits) =>
        Bind(MTUCI_parts(call.arg), LAMBDA parts :
            \A i \in LastThemed(parts) :
                Bind(ThemeSpans(parts[i + 1]), LAMBDA spans :
                    Get(Get(ret[2], "topics"), SectionKey(parts, i)).items
                        = [n \in 1..Len(spans) |->
                              IF TitleIn(UpToStop(spans[n])) = <<>>
                              THEN Strip(parts[i], Whitespace)
                              ELSE TitleIn(UpToStop(spans[n]))]))

(***************************************************************************)
(* The segmenter of ParserSpbPU on topic sections whose last line may have *)
(* the end of the topics on it.                                            *)
(***************************************************************************)
\* a document as SegDocument(lines), the end of the topics on the last of the lines
SegDocumentOpen(lines) ==
    SpbPU_title(<<"A", "b", "c">>) \o SpbPU_textForEducationalUnits
        \o SegText(SubSeq(lines, 1, Len(lines) - 1)) \o lines[Len(lines)] \o <<SP>>
        \o SpbPU_endTextForEducationalUnits \o <<SP, NL>>

TailsInit ==
    /\ parser = "SpbPU"
    /\ files = [d \in Directions |-> NoDir]
    /\ directionsOfStudy = EmptyDict
    /\ \E lines \in Texts(Range(SegHeadings) \cup SegBodies, MaxLines) \ {<<>>},
          open \in BOOLEAN :
           call = [op |-> "__init__",
                   arg |-> IF open THEN SegDocumentOpen(lines) ELSE SegDocument(lines),
                   present |-> FALSE]
    /\ ret = PyNone
    /\ NoDataBase

SpecTails == TailsInit /\ [][SegmentsNext]_vars

\* line 122: the lines the segmenter loops over, without the white space around them
BlockLines(text) ==
    Bind(Find(text, SpbPU_textForEducationalUnits) + Len(SpbPU_textForEducationalUnits),
         LAMBDA from :
        Bind(Split(Slice(text, from, Find(text, SpbPU_endTextForEducationalUnits)), <<NL>>),
             LAMBDA lines : [i \in 1..Len(lines) |-> Strip(lines[i], Whitespace)]))

\* the lines i+1..j are lines in plain type
BodyRun(lines, i, j) == \A k \in (i + 1)..j : lines[k] \in SegBodies

\* C26: in ParserSpbPU every line of the topic block that is not a heading, the last
\* line of the block too, goes into the body of the unit of the heading before it:
\* the units stored for a numbered heading hold every line in plain type that
\* follows it before the next heading.
C26_BodyLinesAccumulated ==
    call.op = "readTextFromFileDiscipline" /\ parser = "SpbPU" =>
        Bind(BlockLines(call.arg), LAMBDA lines :
            \A i \in 1..Len(lines) :
                /\ lines[i] \in {SegHeadings[1], SegHeadings[2]}
                /\ \A k \in (i + 1)..Len(lines) : lines[k] # lines[i]
                =>
                \A j \in (i + 1)..Len(lines) :
                    BodyRun(lines, i, j) =>
                        /\ HasKey(Get(ret[2], "topics"), SpbPU_topicKey(lines[i]))
                        /\ \E u \in Range(Get(Get(ret[2], "topics"),
                                              SpbPU_topicKey(lines[i])).items) :
                               Contains(u, lines[j]))

\* C27: addUser and findUser on a DataBaseController whose pool is open return a
\* value on every path and do not raise, and every connection taken from the pool
\* is put back: between the calls no connection of an open pool is handed out.
C27_ReturnsAndPutsBack ==
    /\ call.op \in {"addUser", "findUser"} /\ DB_poolOpen => ret.kind # "raise"
    /\ DB_poolOpen => poolConnections.used = 0

\* the step is openConnection on a controller that is not connected,
\* closeConnection, or a call of addUser or findUser that comes next after
\* closeConnection
C28_Step ==
    /\ call'.op = "openConnection" /\ ~DB_isConnected =>
           (DB_isConnected' <=> ret' = PyBool(TRUE))
    /\ call'.op = "closeConnection" => ~DB_isConnected'
    /\ call.op = "closeConnection" /\ call'.op \in {"addUser", "findUser"} =>
           ret' \in {PyBool(FALSE), EmptyDict}

\* C28: isConnected() is false before openConnection, false after an openConnection
\* that failed, true after one that succeeded and false again after
\* closeConnection; addUser and findUser called after closeConnection return False
\* and the empty mapping.
C28_ConnectionFollowsOpenClose ==
    (call.op = "__init__" => ~DB_isConnected) /\ [][C28_Step]_vars

(***************************************************************************)
(* The getters of the parsers, under a specification that has them beside  *)
(* the loaders and the savers.                                             *)
(***************************************************************************)
\* ParserMTUCI.getDirection
MTUCI_getDirection(direction) ==
    /\ parser = "MTUCI"
    /\ call' = [op |-> "getDirection", arg |-> direction, present |-> FALSE]
    /\ ret' = IF HasKey(directionsOfStudy, direction)
              THEN Get(directionsOfStudy, direction)
              ELSE EmptyDict
    /\ UNCHANGED <<parser, files, directionsOfStudy, dataBase>>

\* ParserMTUCI.getAllDirections
MTUCI_getAllDirections ==
    /\ parser = "MTUCI"
    /\ call' = Call("getAllDirections")
    /\ ret' = directionsOfStudy
    /\ UNCHANGED <<parser, files, directionsOfStudy, dataBase>>

\* ParserSpbPU.getDirection
SpbPU_getDirection(direction) ==
    /\ parser = "SpbPU"
    /\ call' = [op |-> "getDirection", arg |-> direction, present |-> FALSE]
    /\ ret' = IF HasKey(directionsOfStudy, direction)
              THEN Get(directionsOfStudy, direction)
              ELSE EmptyDict
    /\ UNCHANGED <<parser, files, directionsOfStudy, dataBase>>

\* ParserSpbPU.getAllDirections
SpbPU_getAllDirections ==
    /\ parser = "SpbPU"
    /\ call' = Call("getAllDirections")
    /\ ret' = directionsOfStudy
    /\ UNCHANGED <<parser, files, directionsOfStudy, dataBase>>

\* ParserMPU.getDirection
MPU_getDirection(direction) ==
    /\ parser = "MPU"
    /\ call' = [op |-> "getDirection", arg |-> direction, present |-> FALSE]
    /\ ret' = IF HasKey(directionsOfStudy, direction)
              THEN Get(directionsOfStudy, direction)
              ELSE EmptyDict
    /\ UNCHANGED <<parser, files, directionsOfStudy, dataBase>>

\* ParserMPU.getAllDirections
MPU_getAllDirections ==
    /\ parser = "MPU"
    /\ call' = Call("getAllDirections")
    /\ ret' = directionsOfStudy
    /\ UNCHANGED <<parser, files, directionsOfStudy, dataBase>>

\* ParserGUAP.get_direction
GUAP_get_direction(direction) ==
    /\ parser = "GUAP"
    /\ call' = [op |-> "get_direction", arg |-> direction, present |-> FALSE]
    /\ ret' = IF HasKey(directionsOfStudy, direction)
              THEN Get(directionsOfStudy, direction)
              ELSE EmptyDict
    /\ UNCHANGED <<parser, files, directionsOfStudy, dataBase>>

\* ParserGUAP.get_all_directions
GUAP_get_all_directions ==
    /\ parser = "GUAP"
    /\ call' = Call("get_all_directions")
    /\ ret' = directionsOfStudy
    /\ UNCHANGED <<parser, files, directionsOfStudy, dataBase>>

\* ParserLETI.getDirection: it reads self.__directionsOfStudy, an attribute that
\* nothing assigns (__init__ and start use self.directionsOfStudy)
LETI_getDirection(direction) ==
    /\ parser = "LETI"
    /\ call' = [op |-> "getDirection", arg |-> direction, present |-> FALSE]
    /\ ret' = Raised("AttributeError")
    /\ UNCHANGED <<parser, files, directionsOfStudy, dataBase>>

\* ParserLETI.getAllDirections: the same attribute
LETI_getAllDirections ==
    /\ parser = "LETI"
    /\ call' = Call("getAllDirections")
    /\ ret' = Raised("AttributeError")
    /\ UNCHANGED <<parser, files, directionsOfStudy, dataBase>>

GettersNext ==
    \/ Next
    \/ \E d \in Directions : MTUCI_getDirection(d)
    \/ MTUCI_getAllDirections
    \/ \E d \in Directions : SpbPU_getDirection(d)
    \/ SpbPU_getAllDirections
    \/ \E d \in Directions : MPU_getDirection(d)
    \/ MPU_getAllDirections
    \/ \E d \in Directions : GUAP_get_direction(d)
    \/ GUAP_get_all_directions
    \/ \E d \in Directions : LETI_getDirection(d)
    \/ LETI_getAllDirections

SpecGetters == Init /\ [][GettersNext]_vars

\* C29: for every parser, ParserLETI too, after any loads the getter of all
\* directions returns the collection the loader filled, and the getter of one
\* direction returns what is stored for a direction that was loaded and the empty
\* mapping, without raising, for one that was not.
C29_GettersReturnCollection ==
    /\ call.op \in {"getAllDirections", "get_all_directions"} => ret = directionsOfStudy
    /\ call.op \in {"getDirection", "get_direction"} =>
           ret = IF HasKey(directionsOfStudy, call.arg)
                 THEN Get(directionsOfStudy, call.arg)
                 ELSE EmptyDict

(***************************************************************************)
(* ParserLETI.splitByNumberedTopics on texts of numbers and words, under a *)
(* specification of its own.                                               *)
(***************************************************************************)
MaxParts == 5          \* parts a numbered text is put together from

\* the markers of the first three blocks, a word, and a digit that makes a longer
\* number with the marker after it
NumberedParts == { <<"1", SP>>, <<"2", SP>>, <<"3", SP>>, <<"A", "b", SP>>, <<"1">> }

BlocksInit ==
    /\ parser = "LETI"
    /\ files = [d \in Directions |-> NoDir]
    /\ directionsOfStudy = EmptyDict
    /\ \E parts \in Texts(NumberedParts, MaxParts) :
           call = [op |-> "__init__", arg |-> Concat(parts), present |-> FALSE]
    /\ ret = PyNone
    /\ NoDataBase

\* ParserLETI.splitByNumberedTopics(text)
LETI_SplitByNumberedTopics ==
    /\ call' = [call EXCEPT !.op = "splitByNumberedTopics"]
    /\ ret' = PyList(LETI_splitByNumberedTopics(call.arg))
    /\ UNCHANGED <<parser, files, directionsOfStudy, dataBase>>

BlocksNext == LETI_SplitByNumberedTopics

SpecBlocks == BlocksInit /\ [][BlocksNext]_vars

\* the blocks from the k-th on: each runs from the end of the first marker "k " of
\* the text to the first marker "k+1 " that follows it, the last one to the end of
\* the text
RECURSIVE BlocksBetween(_, _)
BlocksBetween(text, k) ==
    Bind(NumStr(k) \o <<SP>>, LAMBDA currentMarker :
    Bind(Find(text, currentMarker), LAMBDA found :
    Bind(FindFrom(text, NumStr(k + 1) \o <<SP>>, found + Len(currentMarker)),
         LAMBDA following :
        IF found = -1 THEN <<>>
        ELSE IF following = -1
        THEN <<Strip(SliceFrom(text, found + Len(currentMarker)), Whitespace)>>
        ELSE <<Strip(Slice(text, found + Len(currentMarker), following), Whitespace)>>
                 \o BlocksBetween(text, k + 1))))

\* C30: splitByNumberedTopics ends on every text, and its k-th block is the text
\* between the first marker "k " and the first marker "k+1 " that follows it, or
\* the end of the text for the last block.
C30_BlocksBetweenMarkers ==
    call.op = "splitByNumberedTopics" => ret = PyList(BlocksBetween(call.arg, 1))


====
